---------------------------- MODULE Spec2Model ----------------------------
(***************************************************************************)
(* Snapshot stack (lib/server/git.ts), workspace path guard                *)
(* (lib/server/fs-apply.ts) and the streaming run endpoints (agent run,    *)
(* theme update) of the Codex side panel.                                  *)
(*                                                                         *)
(* git is an external tool: the stash is a list of labelled entries        *)
(* (stash@{0} first), `git status` reports whether the working tree is     *)
(* dirty, and every git subprocess either succeeds or exits non-zero.      *)
(* Every `await` of the source is a step of its own, so that concurrent    *)
(* requests and the client's abort interleave where they can in Node.      *)
(***************************************************************************)
EXTENDS Integers, Sequences, FiniteSets, TLC

\* ---------------------------------------------------------------- bounds
\* Date.now() values the model runs through (1..MaxClock).
MaxClock == 2
\* git subprocesses that exit non-zero inside a repository.
MaxFaults == 1
\* Snapshot-stack calls made in SpecStack (by both callers together).
MaxCalls == 3
\* Snapshots created (and then undone) in SpecLifo.
MaxSnapshots == 2
\* Declarations of the accent tokens in styles/theme.css.
MaxDecls == 3
\* Segments passed to resolveWorkspacePath in SpecPath.
MaxSegments == 3
\* Events the source stream of an agent run yields.
MaxEvents == 2
\* Stash entries dropped by hand (`git stash drop` outside the program).
MaxExternal == 1

Procs == {1, 2}

VARIABLES
  isRepo,     \* `git rev-parse --is-inside-work-tree` succeeds in cwd
  tree,       \* working tree: "clean", "untracked" (new files only), "tracked"
  stash,      \* git's stash list, stash@{0} first
  stackFile,  \* .codex-snapshots.json: the persisted list of labels
  now,        \* Date.now()
  faults,     \* git subprocesses that have failed so far inside a repository
  fr,         \* per caller: the frame of its running snapshot-stack call
  drv,        \* the driver (and history) of the snapshot-stack specifications
  run,        \* the agent run (POST /api/codex/agent)
  theme,      \* the theme update (POST /api/codex/theme)
  guard       \* the path guard and the files written

vars == <<isRepo, tree, stash, stackFile, now, faults, fr, drv, run, theme, guard>>
world == <<isRepo, tree, stash, stackFile, now, faults>>
others == <<drv, run, theme, guard>>

\* ---------------------------------------------------------------- labels
\* SNAPSHOT_PREFIX:<Date.now()>:<purpose>; the prefix is the same in all.
Purposes == {"agent-run", "agent-run-pre", "agent-run-post", "theme-update"}
\* The purposes the drivers of SpecLifo and SpecStack pass: one is a substring
\* of the other.
DriverPurposes == {"agent-run", "agent-run-pre"}

Label(ts, purpose) == [ts |-> ts, purpose |-> purpose]
NullLabel == [ts |-> 0, purpose |-> "null"]

\* A stash entry: the label given with --message, and whether its diff against
\* its parent touches tracked paths (`git stash show --patch` prints nothing
\* for an entry that holds untracked files only).
Entry(label, tracked) == [ts |-> label.ts, purpose |-> label.purpose, tracked |-> tracked]

\* a.includes(b) on the purposes the callers pass.
PurposeIncludes(a, b) ==
  \/ a = b
  \/ b = "agent-run" /\ a \in {"agent-run-pre", "agent-run-post"}

\* entry.label.includes(label): the stash subject `On <branch>: <message>`
\* holds label as a substring; the timestamp is delimited by colons.
Includes(entryLabel, label) ==
  /\ entryLabel.ts = label.ts
  /\ PurposeIncludes(entryLabel.purpose, label.purpose)

\* entries.find((entry) => entry.label.includes(label)): 0 when undefined,
\* else the position i of the entry whose ref is stash@{i-1}.
FindEntry(entries, label) ==
  IF \E i \in 1..Len(entries) : Includes(entries[i], label)
  THEN CHOOSE i \in 1..Len(entries) :
         /\ Includes(entries[i], label)
         /\ \A j \in 1..(i-1) : ~Includes(entries[j], label)
  ELSE 0

\* stack.lastIndexOf(label), 1-based; 0 for -1.
LastIndexOf(stack, label) ==
  IF \E i \in 1..Len(stack) : stack[i] = label
  THEN CHOOSE i \in 1..Len(stack) :
         /\ stack[i] = label
         /\ \A j \in (i+1)..Len(stack) : stack[j] # label
  ELSE 0

\* stack.splice(index, 1) / the stash list after `git stash drop stash@{i-1}`.
RemoveAt(s, i) == SubSeq(s, 1, i-1) \o SubSeq(s, i+1, Len(s))

\* stack.filter((label) => entries.some((entry) => entry.label.includes(label)))
FilterStack(stack, entries) ==
  LET kept(l) == \E i \in 1..Len(entries) : Includes(entries[i], l)
  IN  SelectSeq(stack, kept)

\* ---------------------------------------------------------------- frames
IdleFrame ==
  [op |-> "none", pc |-> "idle", purpose |-> "", label |-> NullLabel,
   stack |-> <<>>, entries |-> <<>>, ref |-> 0, paths |-> FALSE,
   cont |-> "",
   res |-> [kind |-> "none"]]

Goto(p, pc) == fr' = [fr EXCEPT ![p].pc = pc]
\* The call resolves with res / rejects; its locals are gone.
Return(p, res) ==
  fr' = [fr EXCEPT ![p] = [IdleFrame EXCEPT !.op = fr[p].op, !.pc = "ret", !.res = res]]
Throw(p) ==
  fr' = [fr EXCEPT ![p] = [IdleFrame EXCEPT !.op = fr[p].op, !.pc = "throw",
                                            !.res = [kind |-> "error"]]]
\* A caller invokes one of the four exported operations.
Call(p, op, pc, purpose, label) ==
  fr' = [fr EXCEPT ![p] = [IdleFrame EXCEPT !.op = op, !.pc = pc,
                                            !.purpose = purpose, !.label = label]]

\* One git subprocess (execFile): it exits non-zero outside a repository, and
\* may exit non-zero inside one; mustFail: this invocation cannot succeed.
GitRunOr(ok, mustFail) ==
  /\ ok => (isRepo /\ ~mustFail)
  /\ (~ok /\ isRepo /\ ~mustFail) => faults < MaxFaults
  /\ faults' = IF ~ok /\ isRepo /\ ~mustFail THEN faults + 1 ELSE faults

GitRun(ok) == GitRunOr(ok, FALSE)

\* ------------------------------------------------------- createSnapshot
\* ensureGitRepo(): false when rev-parse fails; createSnapshot then returns null.
CsRepo(p) ==
  /\ fr[p].pc = "cs_repo"
  /\ \E ok \in BOOLEAN :
       /\ GitRun(ok)
       /\ IF ok THEN Goto(p, "cs_status")
                ELSE Return(p, [kind |-> "label", label |-> NullLabel])
  /\ UNCHANGED <<isRepo, tree, stash, stackFile, now, others>>

\* Date.now() as read after some time has passed since it was last read.
ClockReads == {t \in {now, now + 1} : t <= MaxClock}

\* workspaceHasChanges(), then snapshotLabel from Date.now().
CsStatus(p) ==
  /\ fr[p].pc = "cs_status"
  /\ \E ok \in BOOLEAN :
       /\ GitRun(ok)
       /\ IF ~ok THEN Throw(p) /\ UNCHANGED now
          ELSE IF tree = "clean"
               THEN Return(p, [kind |-> "label", label |-> NullLabel]) /\ UNCHANGED now
               ELSE \E t \in ClockReads :
                      /\ now' = t
                      /\ fr' = [fr EXCEPT ![p].pc = "cs_push",
                                          ![p].label = Label(t, fr[p].purpose)]
  /\ UNCHANGED <<isRepo, tree, stash, stackFile, others>>

\* git stash push --include-untracked --message snapshotLabel: with nothing to
\* save it exits 0 and pushes nothing.
CsPush(p) ==
  /\ fr[p].pc = "cs_push"
  /\ \E ok \in BOOLEAN :
       /\ GitRun(ok)
       /\ IF ~ok THEN Throw(p) /\ UNCHANGED <<tree, stash>>
          ELSE /\ Goto(p, "cs_apply")
               /\ IF tree = "clean" THEN UNCHANGED <<tree, stash>>
                  ELSE /\ stash' = <<Entry(fr[p].label, tree = "tracked")>> \o stash
                       /\ tree' = "clean"
  /\ UNCHANGED <<isRepo, stackFile, now, others>>

\* What `git stash apply` of entry e leaves in a working tree t.
TreeAfterApply(t, e) ==
  IF e.tracked \/ t = "tracked" THEN "tracked" ELSE "untracked"

\* git stash apply stash@{0}; a failure is logged and swallowed.
CsApply(p) ==
  /\ fr[p].pc = "cs_apply"
  /\ \E ok \in BOOLEAN :
       /\ GitRunOr(ok, stash = <<>>)
       /\ tree' = IF ok THEN TreeAfterApply(tree, stash[1]) ELSE tree
  /\ Goto(p, "cs_read")
  /\ UNCHANGED <<isRepo, stash, stackFile, now, others>>

\* readSnapshotStack()
CsRead(p) ==
  /\ fr[p].pc = "cs_read"
  /\ fr' = [fr EXCEPT ![p].pc = "cs_write", ![p].stack = stackFile]
  /\ UNCHANGED <<world, others>>

\* The write of the label alone, without the stack that was read.
CsWriteLabelOnly(p) ==
  /\ fr[p].pc = "cs_write"
  /\ stackFile' = <<fr[p].label>>
  /\ Return(p, [kind |-> "label", label |-> fr[p].label])
  /\ UNCHANGED <<isRepo, tree, stash, now, faults, others>>

\* stack.push(snapshotLabel); writeSnapshotStack(stack); return snapshotLabel
CsWrite(p) ==
  /\ fr[p].pc = "cs_write"
  /\ stackFile' = Append(fr[p].stack, fr[p].label)
  /\ Return(p, [kind |-> "label", label |-> fr[p].label])
  /\ UNCHANGED <<isRepo, tree, stash, now, faults, others>>

CreateStep(p) ==
  \/ CsRepo(p) \/ CsStatus(p) \/ CsPush(p) \/ CsApply(p) \/ CsRead(p) \/ CsWrite(p)

\* --------------------------------------------------------- dropSnapshot
\* readSnapshotStack(); lastIndexOf; splice
DsRead(p) ==
  /\ fr[p].pc = "ds_read"
  /\ LET index == LastIndexOf(stackFile, fr[p].label)
     IN  IF index = 0
         THEN Return(p, [kind |-> "drop", dropped |-> FALSE, reason |-> "not_found"])
         ELSE fr' = [fr EXCEPT ![p].pc = "ds_write",
                               ![p].stack = RemoveAt(stackFile, index)]
  /\ UNCHANGED <<world, others>>

\* writeSnapshotStack(stack)
DsWrite(p) ==
  /\ fr[p].pc = "ds_write"
  /\ stackFile' = fr[p].stack
  /\ Goto(p, "ds_list")
  /\ UNCHANGED <<isRepo, tree, stash, now, faults, others>>

\* listStashEntries(); entries.find(...)
DsList(p) ==
  /\ fr[p].pc = "ds_list"
  /\ \E ok \in BOOLEAN :
       /\ GitRun(ok)
       /\ IF ~ok THEN Throw(p)
          ELSE LET target == FindEntry(stash, fr[p].label)
               IN  IF target = 0
                   THEN Return(p, [kind |-> "drop", dropped |-> TRUE, reason |-> ""])
                   ELSE fr' = [fr EXCEPT ![p].pc = "ds_drop", ![p].ref = target]
  /\ UNCHANGED <<isRepo, tree, stash, stackFile, now, others>>

\* git stash drop target.ref
DsDrop(p) ==
  /\ fr[p].pc = "ds_drop"
  /\ \E ok \in BOOLEAN :
       /\ GitRunOr(ok, fr[p].ref > Len(stash))
       /\ IF ok
          THEN /\ stash' = RemoveAt(stash, fr[p].ref)
               /\ Return(p, [kind |-> "drop", dropped |-> TRUE, reason |-> ""])
          ELSE /\ UNCHANGED stash
               /\ Return(p, [kind |-> "drop", dropped |-> FALSE, reason |-> "drop_failed"])
  /\ UNCHANGED <<isRepo, tree, stackFile, now, others>>

DropStep(p) == DsRead(p) \/ DsWrite(p) \/ DsList(p) \/ DsDrop(p)

\* -------------------------------------------------- filterSnapshotStack
\* Where a call goes on once filterSnapshotStack has resolved.
AfterFilter(p, f) ==
  IF f.cont = "return"
  THEN [IdleFrame EXCEPT !.op = f.op, !.pc = "ret",
          !.res = [kind |-> "summary", hasSnapshots |-> Len(f.stack) > 0,
                   snapshots |-> f.stack]]
  ELSE [f EXCEPT !.pc = f.cont]

\* listStashEntries(); stack.filter(...)
FsList(p) ==
  /\ fr[p].pc = "fs_list"
  /\ \E ok \in BOOLEAN :
       /\ GitRun(ok)
       /\ IF ~ok THEN Throw(p)
          ELSE LET filtered == FilterStack(fr[p].stack, stash)
                   f == [fr[p] EXCEPT !.stack = filtered, !.entries = stash]
               IN  IF Len(filtered) # Len(fr[p].stack)
                   THEN fr' = [fr EXCEPT ![p] = [f EXCEPT !.pc = "fs_write"]]
                   ELSE fr' = [fr EXCEPT ![p] = AfterFilter(p, f)]
  /\ UNCHANGED <<isRepo, tree, stash, stackFile, now, others>>

\* writeSnapshotStack(filtered)
FsWrite(p) ==
  /\ fr[p].pc = "fs_write"
  /\ stackFile' = fr[p].stack
  /\ fr' = [fr EXCEPT ![p] = AfterFilter(p, fr[p])]
  /\ UNCHANGED <<isRepo, tree, stash, now, faults, others>>

\* ---------------------------------------------------- getSnapshotSummary
\* readSnapshotStack(), then filterSnapshotStack(stack)
GsRead(p) ==
  /\ fr[p].pc = "gs_read"
  /\ fr' = [fr EXCEPT ![p].pc = "fs_list", ![p].stack = stackFile,
                      ![p].cont = "return"]
  /\ UNCHANGED <<world, others>>

SummaryStep(p) == GsRead(p) \/ FsList(p) \/ FsWrite(p)

\* ---------------------------------------------------- applyLatestSnapshot
\* while (stack.length > 0) { pop; find; if (!target) continue; ... }: the
\* stack, label and ref the loop body starts from (ref 0: the loop ran out).
RECURSIVE PopFound(_, _)
PopFound(stack, entries) ==
  IF stack = <<>>
  THEN [stack |-> <<>>, label |-> NullLabel, ref |-> 0]
  ELSE LET snapshotLabel == stack[Len(stack)]
           rest == SubSeq(stack, 1, Len(stack) - 1)
           target == FindEntry(entries, snapshotLabel)
       IN  IF target = 0 THEN PopFound(rest, entries)
           ELSE [stack |-> rest, label |-> snapshotLabel, ref |-> target]

\* `git checkout -- <paths>` resets the tracked paths of a patch; other
\* changes and untracked files stay.
CheckoutOutcomes(t) == IF t = "tracked" THEN {"clean", "untracked", "tracked"} ELSE {t}

Applied(remaining) ==
  [kind |-> "apply", applied |-> TRUE, remaining |-> remaining, reason |-> ""]
NotApplied(reason) ==
  [kind |-> "apply", applied |-> FALSE, remaining |-> 0, reason |-> reason]

\* ensureGitRepo()
AlRepo(p) ==
  /\ fr[p].pc = "al_repo"
  /\ \E ok \in BOOLEAN :
       /\ GitRun(ok)
       /\ IF ok THEN Goto(p, "al_read")
                ELSE Return(p, NotApplied("Repository not initialised"))
  /\ UNCHANGED <<isRepo, tree, stash, stackFile, now, others>>

\* readSnapshotStack(), then filterSnapshotStack(stack)
AlRead(p) ==
  /\ fr[p].pc = "al_read"
  /\ fr' = [fr EXCEPT ![p].pc = "fs_list", ![p].stack = stackFile,
                      ![p].cont = "al_pop"]
  /\ UNCHANGED <<world, others>>

\* stack.pop(), entries.find(...), getPatchForRef(target.ref),
\* extractPathsFromPatch(targetPatch)
AlPop(p) ==
  /\ fr[p].pc = "al_pop"
  /\ LET r == PopFound(fr[p].stack, fr[p].entries)
     IN  IF r.ref = 0
         THEN /\ fr' = [fr EXCEPT ![p].pc = "al_none", ![p].stack = <<>>]
              /\ UNCHANGED faults
         ELSE \E ok \in BOOLEAN :
                /\ GitRunOr(ok, r.ref > Len(stash))
                /\ IF ~ok THEN Throw(p)
                   ELSE fr' = [fr EXCEPT ![p].pc = "al_drop", ![p].stack = r.stack,
                                         ![p].label = r.label, ![p].ref = r.ref,
                                         ![p].paths = stash[r.ref].tracked]
  /\ UNCHANGED <<isRepo, tree, stash, stackFile, now, others>>

\* after the loop: writeSnapshotStack(stack); applied: false
AlNone(p) ==
  /\ fr[p].pc = "al_none"
  /\ stackFile' = fr[p].stack
  /\ Return(p, NotApplied("No snapshots available"))
  /\ UNCHANGED <<isRepo, tree, stash, now, faults, others>>

\* The drop whose failure does not push the label back.
AlDropNoPushBack(p) ==
  /\ fr[p].pc = "al_drop"
  /\ \E ok \in BOOLEAN :
       /\ GitRunOr(ok, fr[p].ref > Len(stash))
       /\ IF ok
          THEN /\ stash' = RemoveAt(stash, fr[p].ref)
               /\ Goto(p, "al_write")
          ELSE /\ UNCHANGED stash
               /\ Goto(p, "al_restore")
  /\ UNCHANGED <<isRepo, tree, stackFile, now, others>>

\* git stash drop target.ref; on failure the label is pushed back
AlDrop(p) ==
  /\ fr[p].pc = "al_drop"
  /\ \E ok \in BOOLEAN :
       /\ GitRunOr(ok, fr[p].ref > Len(stash))
       /\ IF ok
          THEN /\ stash' = RemoveAt(stash, fr[p].ref)
               /\ Goto(p, "al_write")
          ELSE /\ UNCHANGED stash
               /\ fr' = [fr EXCEPT ![p].pc = "al_restore",
                                   ![p].stack = Append(fr[p].stack, fr[p].label)]
  /\ UNCHANGED <<isRepo, tree, stackFile, now, others>>

\* catch: writeSnapshotStack(stack); throw err (the frame keeps the label and
\* the stack the catch has written)
AlRestore(p) ==
  /\ fr[p].pc = "al_restore"
  /\ stackFile' = fr[p].stack
  /\ fr' = [fr EXCEPT ![p] = [IdleFrame EXCEPT !.op = fr[p].op, !.pc = "throw",
                                               !.res = [kind |-> "error"],
                                               !.label = fr[p].label,
                                               !.stack = fr[p].stack]]
  /\ UNCHANGED <<isRepo, tree, stash, now, faults, others>>

\* After the target's paths are checked out (or there were none).
AfterCheckout(f) ==
  IF Len(f.stack) = 0
  THEN [IdleFrame EXCEPT !.op = f.op, !.pc = "ret", !.res = Applied(0)]
  ELSE [f EXCEPT !.pc = "fs_list", !.cont = "al_latest"]

\* The step after the drop without the write of the stack.
AlWriteNothing(p) ==
  /\ fr[p].pc = "al_write"
  /\ fr' = [fr EXCEPT ![p] = IF fr[p].paths THEN [fr[p] EXCEPT !.pc = "al_checkout"]
                                            ELSE AfterCheckout(fr[p])]
  /\ UNCHANGED <<world, others>>

\* writeSnapshotStack(stack) after the drop
AlWrite(p) ==
  /\ fr[p].pc = "al_write"
  /\ stackFile' = fr[p].stack
  /\ fr' = [fr EXCEPT ![p] = IF fr[p].paths THEN [fr[p] EXCEPT !.pc = "al_checkout"]
                                            ELSE AfterCheckout(fr[p])]
  /\ UNCHANGED <<isRepo, tree, stash, now, faults, others>>

\* git checkout -- ...targetPaths
AlCheckout(p) ==
  /\ fr[p].pc = "al_checkout"
  /\ \E ok \in BOOLEAN :
       /\ GitRun(ok)
       /\ IF ~ok THEN Throw(p) /\ UNCHANGED tree
          ELSE /\ tree' \in CheckoutOutcomes(tree)
               /\ fr' = [fr EXCEPT ![p] = AfterCheckout(fr[p])]
  /\ UNCHANGED <<isRepo, stash, stackFile, now, others>>

\* latest = entries.find(...); getPatchForRef(latest.ref)
AlLatest(p) ==
  /\ fr[p].pc = "al_latest"
  /\ LET stack == fr[p].stack
         latest == IF stack = <<>> THEN 0
                   ELSE FindEntry(fr[p].entries, stack[Len(stack)])
     IN  IF latest = 0
         THEN Return(p, Applied(Len(stack))) /\ UNCHANGED faults
         ELSE \E ok \in BOOLEAN :
                /\ GitRunOr(ok, latest > Len(stash))
                /\ IF ~ok THEN Throw(p)
                   ELSE fr' = [fr EXCEPT
                          ![p].pc = IF stash[latest].tracked THEN "al_checkout2"
                                                             ELSE "al_patch",
                          ![p].ref = latest, ![p].paths = stash[latest].tracked]
  /\ UNCHANGED <<isRepo, tree, stash, stackFile, now, others>>

\* git checkout -- ...latestPaths
AlCheckout2(p) ==
  /\ fr[p].pc = "al_checkout2"
  /\ \E ok \in BOOLEAN :
       /\ GitRun(ok)
       /\ IF ~ok THEN Throw(p) /\ UNCHANGED tree
          ELSE tree' \in CheckoutOutcomes(tree) /\ Goto(p, "al_patch")
  /\ UNCHANGED <<isRepo, stash, stackFile, now, others>>

\* git apply --whitespace=nowarn patchPath: git rejects an empty patch
\* ("No valid patches in input").
AlPatch(p) ==
  /\ fr[p].pc = "al_patch"
  /\ \E ok \in BOOLEAN :
       /\ GitRunOr(ok, ~fr[p].paths)
       /\ IF ~ok THEN Throw(p) /\ UNCHANGED tree
          ELSE tree' = "tracked" /\ Return(p, Applied(Len(fr[p].stack)))
  /\ UNCHANGED <<isRepo, stash, stackFile, now, others>>

ApplyStep(p) ==
  \/ AlRepo(p) \/ AlRead(p) \/ AlPop(p) \/ AlNone(p) \/ AlDrop(p) \/ AlRestore(p)
  \/ AlWrite(p) \/ AlCheckout(p) \/ AlLatest(p) \/ AlCheckout2(p) \/ AlPatch(p)

\* Files in the workspace get edited (by the agent, by the user): new files
\* only, or tracked files too.
TouchOutcomes(t) == IF t = "tracked" THEN {"tracked"} ELSE {"untracked", "tracked"}

\* ------------------------------------------------------------- drivers
IdleDriver ==
  [calls |-> 0, created |-> <<>>, undone |-> <<>>, touched |-> TRUE, ext |-> 0]

\* A request is served by the first free caller.
Free(p) == fr[p].pc = "idle" /\ \A q \in Procs : q < p => fr[q].pc # "idle"

Range(s) == {s[i] : i \in 1..Len(s)}
StashLabels == [i \in 1..Len(stash) |-> Label(stash[i].ts, stash[i].purpose)]
Reverse(s) == [i \in 1..Len(s) |-> s[Len(s) + 1 - i]]

InitWorld ==
  /\ isRepo \in BOOLEAN
  /\ tree \in {"clean", "untracked", "tracked"}
  /\ stash = <<>>
  /\ stackFile = <<>>
  /\ now = 1
  /\ faults = 0
  /\ fr = [p \in Procs |-> IdleFrame]
  /\ drv = IdleDriver

\* SpecLifo: one caller creates snapshots, each followed by file changes, and
\* then undoes them one after the other.
LifoCreate ==
  /\ fr[1].pc = "idle" /\ drv.touched /\ drv.undone = <<>>
  /\ Len(drv.created) < MaxSnapshots
  /\ \E purpose \in DriverPurposes : Call(1, "create", "cs_repo", purpose, NullLabel)
  /\ UNCHANGED <<world, others>>

LifoCreated ==
  /\ fr[1].op = "create" /\ fr[1].pc \in {"ret", "throw"}
  /\ fr' = [fr EXCEPT ![1] = IdleFrame]
  /\ drv' = IF fr[1].pc = "ret" /\ fr[1].res.label # NullLabel
            THEN [drv EXCEPT !.created = Append(@, fr[1].res.label),
                             !.touched = FALSE]
            ELSE drv
  /\ UNCHANGED <<world, run, theme, guard>>

LifoTouch ==
  /\ fr[1].pc = "idle" /\ drv.undone = <<>>
  /\ tree' \in TouchOutcomes(tree)
  /\ drv' = [drv EXCEPT !.touched = TRUE]
  /\ UNCHANGED <<isRepo, stash, stackFile, now, faults, fr, run, theme, guard>>

LifoUndo ==
  /\ fr[1].pc = "idle" /\ drv.touched
  /\ Len(drv.undone) <= Len(drv.created)
  /\ Call(1, "apply", "al_repo", "", NullLabel)
  /\ UNCHANGED <<world, others>>

LifoUndone ==
  /\ fr[1].op = "apply" /\ fr[1].pc \in {"ret", "throw"}
  /\ fr' = [fr EXCEPT ![1] = IdleFrame]
  /\ drv' = [drv EXCEPT !.undone = Append(@, fr[1].res)]
  /\ UNCHANGED <<world, run, theme, guard>>

\* Someone runs `git stash drop` by hand.
ExternalStashDrop ==
  /\ drv.ext < MaxExternal
  /\ \E i \in 1..Len(stash) : stash' = RemoveAt(stash, i)
  /\ drv' = [drv EXCEPT !.ext = @ + 1]
  /\ UNCHANGED <<isRepo, tree, stackFile, now, faults, fr, run, theme, guard>>

\* SpecStack: two requests call the four operations, interleaved at awaits.
StackCreate(p) ==
  /\ Free(p) /\ drv.calls < MaxCalls
  /\ \E purpose \in DriverPurposes : Call(p, "create", "cs_repo", purpose, NullLabel)
  /\ drv' = [drv EXCEPT !.calls = @ + 1]
  /\ UNCHANGED <<world, run, theme, guard>>

StackDrop(p) ==
  /\ Free(p) /\ drv.calls < MaxCalls
  /\ \E label \in Range(stackFile) \cup Range(StashLabels) :
       Call(p, "drop", "ds_read", "", label)
  /\ drv' = [drv EXCEPT !.calls = @ + 1]
  /\ UNCHANGED <<world, run, theme, guard>>

StackApply(p) ==
  /\ Free(p) /\ drv.calls < MaxCalls
  /\ Call(p, "apply", "al_repo", "", NullLabel)
  /\ drv' = [drv EXCEPT !.calls = @ + 1]
  /\ UNCHANGED <<world, run, theme, guard>>

StackSummary(p) ==
  /\ Free(p) /\ drv.calls < MaxCalls
  /\ Call(p, "summary", "gs_read", "", NullLabel)
  /\ drv' = [drv EXCEPT !.calls = @ + 1]
  /\ UNCHANGED <<world, run, theme, guard>>

StackDone(p) ==
  /\ fr[p].pc \in {"ret", "throw"}
  /\ fr' = [fr EXCEPT ![p] = IdleFrame]
  /\ UNCHANGED <<world, others>>

StackTouch ==
  /\ \A p \in Procs : fr[p].pc = "idle"
  /\ tree' \in TouchOutcomes(tree)
  /\ tree' # tree
  /\ UNCHANGED <<isRepo, stash, stackFile, now, faults, fr, others>>

\* SpecRace: two requests call createSnapshot once each, interleaved at
\* awaits. The driver keeps what each call returned and whether it started
\* after the other call had returned.
IdleRace ==
  [started |-> {}, finished |-> {}, after |-> {},
   returned |-> [p \in Procs |-> NullLabel]]

RaceCreate(p) ==
  /\ fr[p].pc = "idle" /\ p \notin drv.started
  /\ \E purpose \in DriverPurposes : Call(p, "create", "cs_repo", purpose, NullLabel)
  /\ drv' = [drv EXCEPT !.started = @ \cup {p},
                        !.after = IF drv.finished # {} THEN @ \cup {p} ELSE @]
  /\ UNCHANGED <<world, run, theme, guard>>

RaceDone(p) ==
  /\ fr[p].pc \in {"ret", "throw"}
  /\ fr' = [fr EXCEPT ![p] = IdleFrame]
  /\ drv' = [drv EXCEPT !.finished = @ \cup {p},
                        !.returned[p] = IF fr[p].pc = "ret" THEN fr[p].res.label
                                        ELSE NullLabel]
  /\ UNCHANGED <<world, run, theme, guard>>

\* SpecHeal: one caller at a time; stash entries are dropped by hand between
\* calls, then getSnapshotSummary or applyLatestSnapshot is called. The driver
\* keeps what the call started from and what it returned.
IdleHeal ==
  [calls |-> 0, ext |-> 0, op |-> "none", label |-> NullLabel,
   stack0 |-> <<>>, stash0 |-> <<>>, tree0 |-> "clean", faults0 |-> 0,
   res |-> [kind |-> "none"], thrown |-> FALSE, response |-> [status |-> 0]]

\* http.ts: json(data, init) and error(status, message, details); a body is
\* the record of its top-level keys, Absent for a key the body does not have.
Absent == "absent"
json(ok, reason, status) ==
  [status |-> status,
   body |-> [ok |-> ok, reason |-> reason, error |-> Absent, details |-> Absent]]
error(status, message, details) ==
  [status |-> status,
   body |-> [ok |-> Absent, reason |-> Absent, error |-> message, details |-> details]]

\* POST /api/codex/undo once applyLatestSnapshot has resolved (ret) or
\* rejected (throw).
UndoPost(frame) ==
  IF frame.pc = "throw" THEN error(500, "message", [ok |-> "false"])
  ELSE IF ~frame.res.applied
  THEN json("false",
            IF frame.res.reason = "" THEN "No snapshot to restore" ELSE frame.res.reason,
            409)
  ELSE json("true", Absent, 200)

HealCall(op, pc) ==
  /\ fr[1].pc = "idle" /\ drv.calls < MaxCalls
  /\ \E purpose \in DriverPurposes :
       Call(1, op, pc, IF op = "create" THEN purpose ELSE "", NullLabel)
  /\ drv' = [drv EXCEPT !.calls = @ + 1, !.op = op, !.label = NullLabel,
                        !.stack0 = stackFile, !.stash0 = stash,
                        !.tree0 = tree, !.faults0 = faults,
                        !.res = [kind |-> "none"], !.thrown = FALSE,
                        !.response = [status |-> 0]]
  /\ UNCHANGED <<world, run, theme, guard>>

HealCreate == HealCall("create", "cs_repo")
HealSummary == HealCall("summary", "gs_read")
\* POST /api/codex/undo: applyLatestSnapshot()
HealApply == HealCall("apply", "al_repo")

\* dropSnapshot(label), for a label of the stack or one that is not in it.
HealDrop ==
  /\ fr[1].pc = "idle" /\ drv.calls < MaxCalls
  /\ \E label \in Range(stackFile) \cup {Label(MaxClock, "agent-run-pre")} :
       /\ Call(1, "drop", "ds_read", "", label)
       /\ drv' = [drv EXCEPT !.calls = @ + 1, !.op = "drop", !.label = label,
                             !.stack0 = stackFile, !.stash0 = stash,
                             !.tree0 = tree, !.faults0 = faults,
                             !.res = [kind |-> "none"], !.thrown = FALSE,
                             !.response = [status |-> 0]]
  /\ UNCHANGED <<world, run, theme, guard>>

HealDone ==
  /\ fr[1].pc \in {"ret", "throw"}
  /\ fr' = [fr EXCEPT ![1] = IdleFrame]
  /\ drv' = [drv EXCEPT !.res = fr[1].res, !.thrown = (fr[1].pc = "throw"),
                        !.response = IF drv.op = "apply" THEN UndoPost(fr[1])
                                     ELSE [status |-> 0]]
  /\ UNCHANGED <<world, run, theme, guard>>

HealTouch ==
  /\ fr[1].pc = "idle"
  /\ tree' \in TouchOutcomes(tree)
  /\ tree' # tree
  /\ UNCHANGED <<isRepo, stash, stackFile, now, faults, fr, others>>

\* `git stash drop` by hand, while no call is in progress.
HealStashDrop == fr[1].pc = "idle" /\ ExternalStashDrop

\* ========================================================== path guard
\* A path is the sequence of its characters; the platform is POSIX.
Sep == "/"
Dot == <<".">>
DotDot == <<".", ".">>

\* The components of a path between its separators, empty ones included:
\* each starts after the beginning of the path or a separator and ends before
\* the next separator or the end of the path.
SplitPath(s) ==
  LET starts == {0} \cup {i \in 1..Len(s) : s[i] = Sep}
      start(k) == CHOOSE a \in starts : Cardinality({b \in starts : b < a}) = k - 1
      end(a) == CHOOSE b \in ((a + 1)..(Len(s) + 1)) :
                  /\ b = Len(s) + 1 \/ s[b] = Sep
                  /\ \A c \in (a + 1)..(b - 1) : s[c] # Sep
  IN  [k \in 1..Cardinality(starts) |-> SubSeq(s, start(k) + 1, end(start(k)) - 1)]

\* Node's normalizeString for an absolute path: "" and "." are skipped and
\* ".." removes the component before it, never going above the root.
RECURSIVE NormalizeParts(_, _)
NormalizeParts(parts, acc) ==
  IF parts = <<>> THEN acc
  ELSE LET c == Head(parts)
       IN  NormalizeParts(Tail(parts),
             IF c = <<>> \/ c = Dot THEN acc
             ELSE IF c = DotDot
                  THEN (IF acc = <<>> THEN acc ELSE SubSeq(acc, 1, Len(acc) - 1))
                  ELSE Append(acc, c))

\* The components with a separator before each.
RECURSIVE JoinParts(_)
JoinParts(parts) ==
  IF parts = <<>> THEN <<>> ELSE <<Sep>> \o Head(parts) \o JoinParts(Tail(parts))

\* The non-empty segments with a separator between them.
RECURSIVE JoinSegments(_)
JoinSegments(segments) ==
  IF segments = <<>> THEN <<>>
  ELSE IF Head(segments) = <<>> THEN JoinSegments(Tail(segments))
  ELSE LET rest == JoinSegments(Tail(segments))
       IN  IF rest = <<>> THEN Head(segments) ELSE Head(segments) \o <<Sep>> \o rest

\* path.join of segments the first of which is absolute: path.normalize of
\* the joined string, which keeps a trailing separator.
PathJoin(segments) ==
  LET joined == JoinSegments(segments)
      parts == NormalizeParts(SplitPath(joined), <<>>)
  IN  IF parts = <<>> THEN <<Sep>>
      ELSE IF joined[Len(joined)] = Sep THEN JoinParts(parts) \o <<Sep>>
      ELSE JoinParts(parts)

\* path.resolve of an absolute path: normalized, without trailing separator.
PathResolve(target) ==
  LET parts == NormalizeParts(SplitPath(target), <<>>)
  IN  IF parts = <<>> THEN <<Sep>> ELSE JoinParts(parts)

StartsWith(s, prefix) ==
  Len(s) >= Len(prefix) /\ SubSeq(s, 1, Len(prefix)) = prefix

\* process.cwd()
WORKSPACE_ROOT == <<"/", "w">>
app == <<"a", "p", "p">>
styles == <<"s", "t", "y", "l", "e", "s">>
public == <<"p", "u", "b", "l", "i", "c">>
outputs == <<"o", "u", "t", "p", "u", "t", "s">>
ALLOWED_ROOTS ==
  {PathJoin(<<WORKSPACE_ROOT, app>>), PathJoin(<<WORKSPACE_ROOT, styles>>),
   PathJoin(<<WORKSPACE_ROOT, public, outputs>>)}

\* UnderRoot without the separator: a prefix of the string is enough.
UnderRootNoSep(resolved, normalizedRoot) == StartsWith(resolved, normalizedRoot)

\* resolved === normalizedRoot || resolved.startsWith(normalizedRoot + path.sep)
UnderRoot(resolved, normalizedRoot) ==
  resolved = normalizedRoot \/ StartsWith(resolved, normalizedRoot \o <<Sep>>)

isPathAllowed(targetPath) ==
  LET resolved == PathResolve(targetPath)
  IN  \E root \in ALLOWED_ROOTS : UnderRoot(resolved, PathResolve(root))

\* resolveWorkspacePath(...segments): the path returned, or the throw of
\* assertPathAllowed.
resolveWorkspacePath(segments) ==
  LET resolved == PathJoin(<<WORKSPACE_ROOT>> \o segments)
  IN  IF isPathAllowed(resolved) THEN [ok |-> TRUE, path |-> resolved]
      ELSE [ok |-> FALSE, path |-> <<>>]

\* Segments callers pass: names, "." and "..", the empty string, segments with
\* separators in them.
appsecret == <<"a", "p", "p", "s", "e", "c", "r", "e", "t">>
themeCss == <<"t", "h", "e", "m", "e", ".", "c", "s", "s">>
codexRun == <<"c", "o", "d", "e", "x", "-", "r", "u", "n">>
\* THEME_FILE = 'styles/theme.css'
THEME_FILE == styles \o <<Sep>> \o themeCss
Segments ==
  {app, appsecret, styles, public, outputs, themeCss, Dot, DotDot, <<>>,
   THEME_FILE, public \o <<Sep>> \o outputs, app \o <<Sep>>, <<Sep>> \o app,
   DotDot \o <<Sep>> \o WORKSPACE_ROOT}

IdleGuard == [pc |-> "idle", segments |-> <<>>, result |-> [ok |-> FALSE, path |-> <<>>],
              by |-> "none", guarded |-> FALSE]

\* A caller builds the argument list of resolveWorkspacePath.
GuardPush ==
  /\ guard.pc = "idle" /\ Len(guard.segments) < MaxSegments
  /\ \E seg \in Segments : guard' = [guard EXCEPT !.segments = Append(@, seg)]
  /\ UNCHANGED <<world, fr, drv, run, theme>>

GuardResolve ==
  /\ guard.pc = "idle"
  /\ guard' = [guard EXCEPT !.pc = "resolved",
                            !.result = resolveWorkspacePath(guard.segments)]
  /\ UNCHANGED <<world, fr, drv, run, theme>>

GuardReset ==
  /\ guard.pc # "idle"
  /\ guard' = IdleGuard
  /\ UNCHANGED <<world, fr, drv, run, theme>>

\* The writes to disk made on behalf of a run: who writes, the path written
\* and whether the path went through assertPathAllowed.
Wrote(by, path, guarded) ==
  [pc |-> "wrote", segments |-> <<>>, result |-> [ok |-> TRUE, path |-> path],
   by |-> by, guarded |-> guarded]

\* POST /api/codex/theme: fs.writeFile(resolveWorkspacePath('styles', 'theme.css'))
ThemeFileWrite ==
  /\ guard = IdleGuard
  /\ LET r == resolveWorkspacePath(<<styles, themeCss>>)
     IN  /\ r.ok
         /\ guard' = Wrote("theme", r.path, TRUE)
  /\ UNCHANGED <<world, fr, drv, run, theme>>

\* sanitizeFilename(file.name): the base name with every character outside
\* [a-zA-Z0-9.-_] replaced; the names the model uploads are left as they are
\* but for the directory part, which path.basename drops.
UploadNames == {themeCss, DotDot \o <<Sep>> \o themeCss, app \o <<Sep>> \o themeCss}
sanitizeFilename(name) ==
  LET parts == SplitPath(name) IN parts[Len(parts)]
\* createUploadBucket(): the first group of a random UUID.
Buckets == {<<"0">>, <<"f">>}
CODEX_UPLOAD_ROOT == PathJoin(<<WORKSPACE_ROOT, public, codexRun>>)

\* POST /api/codex/upload: fs.writeFile(path.join(targetDir, safeName))
UploadWrite ==
  /\ guard = IdleGuard
  /\ \E bucket \in Buckets, name \in UploadNames :
       LET targetDir == PathJoin(<<CODEX_UPLOAD_ROOT, bucket>>)
           targetPath == PathJoin(<<targetDir, sanitizeFilename(name)>>)
       IN  guard' = Wrote("upload", targetPath, FALSE)
  /\ UNCHANGED <<world, fr, drv, run, theme>>

\* The agent thread edits a file: its sandbox is workspace-write with
\* workingDirectory = process.cwd(), so any path of the workspace.
AgentTargets == {<<app, themeCss>>, <<styles, themeCss>>, <<appsecret>>, <<themeCss>>}
AgentWrite ==
  /\ guard = IdleGuard
  /\ \E target \in AgentTargets :
       guard' = Wrote("agent", PathJoin(<<WORKSPACE_ROOT>> \o target), FALSE)
  /\ UNCHANGED <<world, fr, drv, run, theme>>

\* =========================================================== agent run
\* POST /api/codex/agent: one run, served by caller 1.

\* ThreadEvent: its type, and the type of its item ("" for an event without).
Ev(type, item) == [type |-> type, item |-> item]
ItemEventTypes == {"item.started", "item.updated", "item.completed"}
\* The events the source stream of the model yields.
SourceEvents ==
  {Ev("turn.failed", ""), Ev("error", ""),
   Ev("item.started", "file_change"), Ev("item.completed", "file_change"),
   Ev("item.completed", "agent_message"), Ev("item.updated", "command_execution")}

Phase(type) ==
  CASE type = "item.started" -> "started"
    [] type = "item.updated" -> "updated"
    [] type = "item.completed" -> "completed"
    [] OTHER -> ""

\* handleItemEvent: the `type` of the message sent for an item, as the pair of
\* its fixed part and the phase appended to it ("" when none is).
ItemMessage(phase, item) ==
  CASE item = "todo_list" -> [type |-> "plan.updated", phase |-> ""]
    [] item = "command_execution" -> [type |-> "command", phase |-> phase]
    [] item = "file_change" -> [type |-> "file.change", phase |-> ""]
    [] item = "agent_message" -> [type |-> "agent.message", phase |-> ""]
    [] item = "reasoning" -> [type |-> "reasoning", phase |-> ""]
    [] item = "error" -> [type |-> "error.item", phase |-> ""]
    [] item = "mcp_tool_call" -> [type |-> "tool", phase |-> phase]
    [] item = "web_search" -> [type |-> "search", phase |-> phase]
    [] OTHER -> [type |-> "item", phase |-> phase]

\* forwardEvent: the message sent for an event; none for a type the switch
\* does not list.
ForwardedTypes ==
  {"thread.started", "turn.started", "turn.completed", "turn.failed", "error"}
    \cup ItemEventTypes
EventMessage(e) ==
  IF e.type \in ItemEventTypes THEN ItemMessage(Phase(e.type), e.item)
  ELSE [type |-> e.type, phase |-> ""]

\* What the controller has enqueued: event: message | done.
Message(m, src) ==
  [event |-> "message", type |-> m.type, phase |-> m.phase, src |-> src,
   ok |-> FALSE, hasSnapshots |-> FALSE, reason |-> ""]
Done(ok, hasSnapshots, reason) ==
  [event |-> "done", type |-> "", phase |-> "", src |-> 0,
   ok |-> ok, hasSnapshots |-> hasSnapshots, reason |-> reason]

\* createEmitter: the emitter's `closed`, the controller ("open", "closed" by
\* controller.close(), "cancelled" by the consumer) and the chunks enqueued.
\* send(event, data)
EmitSend(r, chunk) ==
  IF r.closed THEN r
  ELSE IF r.ctrl # "open" THEN [r EXCEPT !.closed = TRUE]
  ELSE [r EXCEPT !.queue = Append(@, chunk)]

\* close()
EmitClose(r) ==
  IF r.closed THEN r
  ELSE [r EXCEPT !.closed = TRUE,
                 !.ctrl = IF r.ctrl = "open" THEN "closed" ELSE r.ctrl]

\* String.prototype.trim for a string of the model's characters.
RECURSIVE TrimStart(_)
Whitespace == {" ", "\n"}
TrimStart(str) ==
  IF str # <<>> /\ Head(str) \in Whitespace THEN TrimStart(Tail(str)) ELSE str
Trim(str) == Reverse(TrimStart(Reverse(TrimStart(str))))

\* The bodies a client posts: prompt is a string or not, images is a list of
\* paths (an absent images key is the empty list).
Prompts == {<<"f", "i", "x">>, <<" ">>}
ImagePaths ==
  {public \o <<Sep>> \o outputs \o <<Sep, "a">>, DotDot \o <<Sep>> \o appsecret}
Bodies ==
  [isString : {TRUE}, prompt : Prompts, images : {<<>>} \cup {<<i>> : i \in ImagePaths}]
    \cup {[isString |-> FALSE, prompt |-> <<>>, images |-> <<>>]}

\* parsePayload(body): the payload, or the throw (ok false).
parsePayload(body) ==
  IF ~body.isString \/ Trim(body.prompt) = <<>>
  THEN [ok |-> FALSE, prompt |-> <<>>, images |-> <<>>]
  ELSE [ok |-> TRUE, prompt |-> Trim(body.prompt),
        images |-> SelectSeq([i \in 1..Len(body.images) |-> Trim(body.images[i])],
                             LAMBDA i : i # <<>>)]

resolveImagePath(imagePath) ==
  LET normalized == Trim(imagePath)
  IN  IF normalized = <<>> THEN WORKSPACE_ROOT
      ELSE IF Head(normalized) = Sep THEN PathJoin(<<normalized>>)
      ELSE PathJoin(<<WORKSPACE_ROOT, normalized>>)

\* createThreadInput(prompt, images): the paths of its local_image items.
createThreadInput(images) ==
  [i \in 1..Len(images) |-> resolveImagePath(images[i])]

IdleRun ==
  [pc |-> "idle", apiKey |-> TRUE, response |-> "none", stack0 |-> <<>>,
   body |-> [isString |-> FALSE, prompt |-> <<>>, images |-> <<>>],
   input |-> <<>>, external |-> {}, dropReturned |-> FALSE,
   pre |-> NullLabel, post |-> NullLabel,
   closed |-> FALSE, ctrl |-> "none", queue |-> <<>>,
   listener |-> FALSE, aborted |-> FALSE,
   hasFileChanges |-> FALSE, finalResponse |-> FALSE, failed |-> FALSE,
   seen |-> <<>>]

\* finally { emitter.close(); removeEventListener('abort', abortHandler) }
Finally(r) == [EmitClose(r) EXCEPT !.pc = "done", !.listener = FALSE]

\* parsePayload(await request.json()); createSnapshot('agent-run-pre')
RunRequest ==
  /\ run.pc = "idle"
  /\ \E body \in Bodies :
       IF parsePayload(body).ok
       THEN /\ run' = [run EXCEPT !.pc = "pre", !.stack0 = stackFile,
                                  !.body = body,
                                  !.external = @ \cup {"createSnapshot"}]
            /\ Call(1, "create", "cs_repo", "agent-run-pre", NullLabel)
       ELSE /\ run' = [run EXCEPT !.pc = "done", !.response = "400",
                                  !.stack0 = stackFile, !.body = body]
            /\ UNCHANGED fr
  /\ UNCHANGED <<world, drv, theme, guard>>

\* startWorkspaceThread(); new ReadableStream({ start }) up to the first await
\* of start: createEmitter, addEventListener('abort'), thread.runStreamed(input).
\* The outer catch answers 400.
RunOpen ==
  /\ run.pc = "pre" /\ fr[1].pc \in {"ret", "throw"}
  /\ fr' = [fr EXCEPT ![1] = IdleFrame]
  /\ run' = IF fr[1].pc = "throw" \/ ~run.apiKey
            THEN [run EXCEPT !.pc = "done", !.response = "400",
                             !.pre = IF fr[1].pc = "ret" THEN fr[1].res.label
                                                         ELSE NullLabel]
            ELSE [run EXCEPT !.pc = "run_streamed", !.response = "stream",
                             !.external = @ \cup {"thread"},
                             !.pre = fr[1].res.label, !.ctrl = "open",
                             !.listener = ~run.aborted]
  /\ UNCHANGED <<world, drv, theme, guard>>

\* The decision without the test of hasFileChanges before createSnapshot.
AfterLoopAlwaysPost(r) ==
  IF ~r.hasFileChanges /\ r.pre # NullLabel THEN "drop" ELSE "create"

\* The decision without the dropSnapshot of the pre-run snapshot.
AfterLoopNoDrop(r) == IF r.hasFileChanges THEN "create" ELSE "summary"

\* The post-run decision after the loop, and the same in the catch block:
\* dropSnapshot(preRunSnapshot) / createSnapshot('agent-run-post') /
\* getSnapshotSummary(); the call to make next.
AfterLoop(r) ==
  IF ~r.hasFileChanges /\ r.pre # NullLabel THEN "drop"
  ELSE IF r.hasFileChanges THEN "create"
  ELSE "summary"

StartCall(kind, r) ==
  CASE kind = "drop" ->
         [IdleFrame EXCEPT !.op = "drop", !.pc = "ds_read", !.label = r.pre]
    [] kind = "create" ->
         [IdleFrame EXCEPT !.op = "create", !.pc = "cs_repo",
                           !.purpose = "agent-run-post"]
    [] OTHER ->
         [IdleFrame EXCEPT !.op = "summary", !.pc = "gs_read"]

\* The loop is left (normally or by break): if (!emitter.isClosed()) { ... }
EnterPost(r) ==
  IF r.closed THEN Finally(r)
  ELSE [r EXCEPT !.pc = "post"]

\* catch (streamError): if (!emitter.isClosed()) { send error message; ... }
EnterCatch(r) ==
  IF r.closed THEN Finally(r)
  ELSE [EmitSend(r, Message([type |-> "error", phase |-> ""], 0))
          EXCEPT !.pc = "catch", !.failed = TRUE]

\* The frame of caller 1 once the run is in state r.
RunFrame(r) ==
  IF r.pc \in {"post", "catch"} THEN StartCall(AfterLoop(r), r) ELSE IdleFrame

\* const input = createThreadInput(payload.prompt, payload.images ?? []);
\* const { events } = await thread.runStreamed(input)
RunStreamed ==
  /\ run.pc = "run_streamed"
  /\ \E ok \in BOOLEAN :
       LET r0 == [run EXCEPT
                   !.input = createThreadInput(parsePayload(run.body).images)]
           r == IF ok THEN [r0 EXCEPT !.pc = "loop"] ELSE EnterCatch(r0)
       IN  run' = r /\ fr' = [fr EXCEPT ![1] = RunFrame(r)]
  /\ UNCHANGED <<world, drv, theme, guard>>

\* The loop body with hasFileChanges set by completed items only.
LoopBodyCompletedOnly(r, e) ==
  IF r.closed THEN EnterPost(r)
  ELSE LET r1 == [r EXCEPT
                   !.seen = Append(@, e),
                   !.hasFileChanges = @ \/ (e.type = "item.completed" /\ e.item = "file_change"),
                   !.finalResponse = @ \/ (e.type = "item.completed" /\ e.item = "agent_message")]
       IN  IF e.type \in ForwardedTypes
           THEN EmitSend(r1, Message(EventMessage(e), Len(r1.seen)))
           ELSE r1

\* One turn of `for await (const event of events)`: the body for an event
\* (break when the emitter is closed).
LoopBody(r, e) ==
  IF r.closed THEN EnterPost(r)
  ELSE LET r1 == [r EXCEPT
                   !.seen = Append(@, e),
                   !.hasFileChanges = @ \/ (e.type \in ItemEventTypes /\ e.item = "file_change"),
                   !.finalResponse = @ \/ (e.type = "item.completed" /\ e.item = "agent_message")]
       IN  IF e.type \in ForwardedTypes
           THEN EmitSend(r1, Message(EventMessage(e), Len(r1.seen)))
           ELSE r1

\* The source yields an event.
RunEvent ==
  /\ run.pc = "loop" /\ Len(run.seen) < MaxEvents
  /\ \E e \in SourceEvents :
       LET r == LoopBody(run, e)
       IN  run' = r /\ fr' = [fr EXCEPT ![1] = RunFrame(r)]
  /\ UNCHANGED <<world, drv, theme, guard>>

\* The source ends, or throws.
RunEnd ==
  /\ run.pc = "loop"
  /\ \E ok \in BOOLEAN :
       LET r == IF ok THEN EnterPost(run) ELSE EnterCatch(run)
       IN  run' = r /\ fr' = [fr EXCEPT ![1] = RunFrame(r)]
  /\ UNCHANGED <<world, drv, theme, guard>>

\* After the last call of the post-run decision: agent.final, done, finally.
Finish(r, ok, summary) ==
  LET r1 == IF r.finalResponse
            THEN EmitSend(r, Message([type |-> "agent.final", phase |-> ""], 0))
            ELSE r
  IN  Finally(EmitSend(r1, Done(ok, summary.hasSnapshots, "")))

\* A call of the post-run decision has resolved or rejected (try block and
\* catch block alike; a rejection in the try block enters the catch block, one
\* in the catch block leaves start() through finally).
RunPost ==
  /\ run.pc \in {"post", "catch"} /\ fr[1].pc \in {"ret", "throw"}
  /\ LET r0 == IF fr[1].op = "create" /\ fr[1].pc = "ret"
               THEN [run EXCEPT !.post = fr[1].res.label]
               ELSE IF fr[1].op = "drop" /\ fr[1].pc = "ret"
               THEN [run EXCEPT !.dropReturned = TRUE]
               ELSE run
         next == IF fr[1].op = "drop" /\ r0.hasFileChanges THEN "create" ELSE "summary"
     IN  IF fr[1].pc = "throw"
         THEN LET r == IF run.pc = "post" THEN EnterCatch(r0) ELSE Finally(r0)
              IN  run' = r /\ fr' = [fr EXCEPT ![1] = RunFrame(r)]
         ELSE IF fr[1].op = "summary"
              THEN /\ run' = Finish(r0, run.pc = "post", fr[1].res)
                   /\ fr' = [fr EXCEPT ![1] = IdleFrame]
              ELSE /\ run' = r0
                   /\ fr' = [fr EXCEPT ![1] = StartCall(next, r0)]
  /\ UNCHANGED <<world, drv, theme, guard>>

\* request.signal fires 'abort': abortHandler runs if it is attached.
RunAbort ==
  /\ run.pc \notin {"idle", "done"} /\ ~run.aborted
  /\ run' = IF run.listener THEN [EmitClose(run) EXCEPT !.aborted = TRUE]
                            ELSE [run EXCEPT !.aborted = TRUE]
  /\ UNCHANGED <<world, fr, drv, theme, guard>>

\* The consumer of the response body cancels it (the client is gone): from
\* then on controller.enqueue and controller.close throw.
RunCancel ==
  /\ run.ctrl = "open"
  /\ run' = [run EXCEPT !.ctrl = "cancelled"]
  /\ UNCHANGED <<world, fr, drv, theme, guard>>

\* The agent (or its commands) edits files of the workspace while it runs.
AgentTouch ==
  /\ run.pc = "loop"
  /\ tree' \in TouchOutcomes(tree)
  /\ tree' # tree
  /\ UNCHANGED <<isRepo, stash, stackFile, now, faults, fr, others>>

\* ======================================================== theme update
\* POST /api/codex/theme (direct) and the streaming theme route, served by
\* caller 1. styles/theme.css is the sequence of its declarations of the two
\* accent tokens; a token may be declared more than once (light and dark
\* sections) or not at all.
Tokens == {"--accent-primary", "--accent-secondary"}
\* Values that pass COLOR_REGEX, and one that does not.
Colors == {"#fff", "#FFF"}
PayloadValues == Colors \cup {"red"}
Decl(token, value) == [token |-> token, value |-> value]
Contents ==
  UNION {[1..n -> {Decl(t, v) : t \in Tokens, v \in Colors}] : n \in 0..MaxDecls}

\* String.prototype.toLowerCase on the colours of the model.
ToLowerCase(c) == IF c = "#FFF" THEN "#fff" ELSE c

\* validateTheme: throws unless both colours match COLOR_REGEX; the streaming
\* route lower-cases them, the direct route does not.
ValidTheme(primary, accent) == primary \in Colors /\ accent \in Colors
validateTheme(route, primary, accent) ==
  IF route = "stream"
  THEN [primary |-> ToLowerCase(primary), accent |-> ToLowerCase(accent)]
  ELSE [primary |-> primary, accent |-> accent]

\* updateToken: pattern.test(source), then source.replace(pattern, ...) with a
\* pattern without the g flag: only the first declaration is rewritten.
HasToken(source, token) == \E i \in 1..Len(source) : source[i].token = token
FirstOf(source, token) ==
  CHOOSE i \in 1..Len(source) :
    source[i].token = token /\ \A j \in 1..(i - 1) : source[j].token # token
updateToken(source, token, value) ==
  [source EXCEPT ![FirstOf(source, token)].value = value]

\* What the agent makes of the file when it follows the prompt: the values
\* in all places the tokens appear.
UpdateAll(source, payload) ==
  [i \in 1..Len(source) |->
     Decl(source[i].token,
          IF source[i].token = "--accent-primary" THEN payload.primary
                                                  ELSE payload.accent)]

\* NoChanges with the comparison never finding the contents equal.
NoChangesNever(content, patched) == FALSE

\* if (content === patched)
NoChanges(content, patched) == content = patched

IdleTheme ==
  [pc |-> "idle", route |-> "direct", payload |-> [primary |-> "", accent |-> ""],
   file |-> <<>>, content0 |-> <<>>, patched |-> <<>>, stack0 |-> <<>>,
   noop |-> FALSE, created |-> 0, threads |-> 0, response |-> "none",
   queue |-> <<>>, closed |-> FALSE, listener |-> FALSE, aborted |-> FALSE,
   events |-> 0, apiKey |-> TRUE]

\* The theme emitter: send (no try around enqueue) and close.
ThemeSend(t, chunk) == IF t.closed THEN t ELSE [t EXCEPT !.queue = Append(@, chunk)]
ThemeClose(t) == [t EXCEPT !.closed = TRUE]
ThemeMessage(type) == Message([type |-> type, phase |-> ""], 0)

\* finally { emitter.close(); removeEventListener('abort', abortHandler) }
ThemeFinally(t) == [ThemeClose(t) EXCEPT !.pc = "done", !.listener = FALSE]
\* catch (runError): error message, done ok: false
ThemeCatch(t) ==
  ThemeFinally(ThemeSend(ThemeSend(t, ThemeMessage("error")), Done(FALSE, FALSE, "")))
\* The outer catch: error(400, ...)
ThemeRejected(t) == [t EXCEPT !.pc = "done", !.response = "400"]

\* validateTheme(await request.json()); resolveWorkspacePath(...); the read of
\* the file is awaited.
ThemeRequest ==
  /\ theme.pc = "idle"
  /\ \E route \in {"direct", "stream"}, primary \in PayloadValues, accent \in Colors :
       LET themePath == IF route = "direct"
                        THEN resolveWorkspacePath(<<styles, themeCss>>)
                        ELSE resolveWorkspacePath(<<THEME_FILE>>)
           t == [IdleTheme EXCEPT !.route = route, !.file = theme.file,
                                  !.content0 = theme.file, !.stack0 = stackFile,
                                  !.apiKey = theme.apiKey]
       IN  theme' = IF ValidTheme(primary, accent) /\ themePath.ok
                    THEN [t EXCEPT !.pc = "read",
                                   !.payload = validateTheme(route, primary, accent)]
                    ELSE ThemeRejected(t)
  /\ UNCHANGED <<world, fr, drv, run, guard>>

\* The file has been read: both updateToken calls, the comparison, and what
\* follows it up to the next await: getSnapshotSummary() on the no-op path,
\* fs.writeFile in the direct route, startWorkspaceThread() and the start of
\* the stream in the streaming route.
ThemeRead ==
  /\ theme.pc = "read"
  /\ LET content == theme.file
         found == HasToken(content, "--accent-primary")
                    /\ HasToken(content, "--accent-secondary")
         patched == updateToken(updateToken(content, "--accent-primary", theme.payload.primary),
                                "--accent-secondary", theme.payload.accent)
     IN  IF ~found THEN theme' = ThemeRejected(theme) /\ UNCHANGED fr
         ELSE LET t == [theme EXCEPT !.patched = patched,
                                     !.noop = (patched = content)]
              IN  IF NoChanges(content, patched)
                  THEN /\ theme' = [t EXCEPT !.pc = "noop_summary"]
                       /\ Call(1, "summary", "gs_read", "", NullLabel)
                  ELSE IF theme.route = "direct"
                  THEN theme' = [t EXCEPT !.pc = "write"] /\ UNCHANGED fr
                  ELSE /\ UNCHANGED fr
                       /\ theme' = IF ~theme.apiKey
                                   THEN ThemeRejected([t EXCEPT !.threads = @ + 1])
                                   ELSE [t EXCEPT !.pc = "run_streamed",
                                                  !.threads = @ + 1,
                                                  !.response = "stream",
                                                  !.listener = ~theme.aborted]
  /\ UNCHANGED <<world, drv, run, guard>>

\* await fs.writeFile(themePath, nextContent); createSnapshot('theme-update')
ThemeWrite ==
  /\ theme.pc = "write"
  /\ theme' = [theme EXCEPT !.pc = "snapshot", !.file = theme.patched,
                            !.created = @ + 1]
  /\ tree' = "tracked"
  /\ Call(1, "create", "cs_repo", "theme-update", NullLabel)
  /\ UNCHANGED <<isRepo, stash, stackFile, now, faults, drv, run, guard>>

\* const { events } = await thread.runStreamed(prompt)
ThemeStreamed ==
  /\ theme.pc = "run_streamed"
  /\ \E ok \in BOOLEAN :
       theme' = IF ok THEN [theme EXCEPT !.pc = "loop"] ELSE ThemeCatch(theme)
  /\ UNCHANGED <<world, fr, drv, run, guard>>

\* The agent rewrites the theme file while it runs.
ThemeAgentEdit ==
  /\ theme.pc = "loop"
  /\ theme.file # UpdateAll(theme.file, theme.payload)
  /\ theme' = [theme EXCEPT !.file = UpdateAll(theme.file, theme.payload)]
  /\ tree' = "tracked"
  /\ UNCHANGED <<isRepo, stash, stackFile, now, faults, fr, drv, run, guard>>

\* The events the source stream of a theme update yields in the model.
ThemeSourceEvents == {Ev("item.completed", "file_change"), Ev("turn.completed", "")}

\* The source yields an event and the loop goes on: forwardEvent.
ThemeEvent ==
  /\ theme.pc = "loop" /\ ~theme.closed /\ theme.events < MaxEvents
  /\ \E e \in ThemeSourceEvents :
       theme' = [ThemeSend(theme, Message(EventMessage(e), theme.events + 1))
                   EXCEPT !.events = @ + 1]
  /\ UNCHANGED <<world, fr, drv, run, guard>>

\* The loop is left: the source ends, or yields an event after the emitter
\* was closed (break); then createSnapshot('theme-update'). Or the source throws.
ThemeEnd ==
  /\ theme.pc = "loop"
  /\ \E ok \in BOOLEAN :
       IF ok
       THEN /\ theme' = [theme EXCEPT !.pc = "snapshot", !.created = @ + 1]
            /\ Call(1, "create", "cs_repo", "theme-update", NullLabel)
       ELSE theme' = ThemeCatch(theme) /\ UNCHANGED fr
  /\ UNCHANGED <<world, drv, run, guard>>

\* What the request does with the summary.
ThemeCompleted(t, summary) ==
  IF t.route = "direct" THEN [t EXCEPT !.pc = "done", !.response = "200"]
  ELSE IF t.pc = "noop_summary"
  THEN [ThemeClose(ThemeSend(ThemeSend(t, ThemeMessage("theme.completed")),
                             Done(TRUE, summary.hasSnapshots, "no_changes")))
          EXCEPT !.pc = "done", !.response = "stream"]
  ELSE ThemeFinally(ThemeSend(ThemeSend(t, ThemeMessage("theme.completed")),
                              Done(TRUE, summary.hasSnapshots, "")))

\* createSnapshot or getSnapshotSummary has resolved or rejected.
ThemePost ==
  /\ theme.pc \in {"snapshot", "summary", "noop_summary"}
  /\ fr[1].pc \in {"ret", "throw"}
  /\ IF fr[1].pc = "throw"
     THEN /\ fr' = [fr EXCEPT ![1] = IdleFrame]
          /\ theme' = IF theme.route = "direct" \/ theme.pc = "noop_summary"
                      THEN ThemeRejected(theme) ELSE ThemeCatch(theme)
     ELSE IF theme.pc = "snapshot"
     THEN /\ theme' = [theme EXCEPT !.pc = "summary"]
          /\ fr' = [fr EXCEPT ![1] = [IdleFrame EXCEPT !.op = "summary", !.pc = "gs_read"]]
     ELSE /\ theme' = ThemeCompleted(theme, fr[1].res)
          /\ fr' = [fr EXCEPT ![1] = IdleFrame]
  /\ UNCHANGED <<world, drv, run, guard>>

\* request.signal fires 'abort': abortHandler sends done and closes, if attached.
ThemeAbort ==
  /\ theme.pc \notin {"idle", "done"} /\ theme.route = "stream" /\ ~theme.aborted
  /\ theme' = IF theme.listener
              THEN [ThemeClose(ThemeSend(theme, Done(FALSE, FALSE, "aborted")))
                      EXCEPT !.aborted = TRUE]
              ELSE [theme EXCEPT !.aborted = TRUE]
  /\ UNCHANGED <<world, fr, drv, run, guard>>

\* ==================================================== video generation
\* POST /api/videos/generate (app/api/videos/generate/route.ts) from the
\* creation of the video job on. The video service is external: a job it
\* reports has any status and progress, and each of its calls may throw. The
\* record `drv` holds the handler's locals, the progress file and the response.
MAX_POLL_ATTEMPTS == 90

JobStatuses == {"queued", "in_progress", "completed", "failed"}
\* What videos.create / videos.retrieve resolve to (progress and error are
\* optional fields of the job).
Jobs ==
  [status : JobStatuses, hasProgress : BOOLEAN, progress : {0, 50},
   hasError : BOOLEAN]

\* updateProgress(snapshot, status, progressValue, updatedAt, error?)
updateProgress(snapshot, status, progressValue, err) ==
  [status |-> status, progress |-> progressValue,
   error |-> IF err # "" THEN err ELSE snapshot.error]

IdleVideo ==
  [pc |-> "create", cont |-> "", attempts |-> 0, retrievals |-> 0,
   currentJob |-> [status |-> "none", hasProgress |-> FALSE, progress |-> 0,
                   hasError |-> FALSE],
   snapshot |-> [status |-> "none", progress |-> 0, error |-> ""],
   file |-> [status |-> "none", progress |-> 0, error |-> ""],
   exit |-> "", response |-> [status |-> 0, code |-> ""]]

VideoRespond(d, exit, status, code) ==
  [d EXCEPT !.pc = "done", !.exit = exit,
            !.response = [status |-> status, code |-> code]]

\* client.videos.create(...); updateProgress(snapshot, videoJob.status, ...)
VideoCreate ==
  /\ drv.pc = "create"
  /\ \/ drv' = VideoRespond(drv, "create_failed", 502, "")
     \/ \E job \in Jobs :
          drv' = [drv EXCEPT
                   !.currentJob = job,
                   !.snapshot = updateProgress(@, job.status,
                                  IF job.hasProgress THEN job.progress ELSE 0, ""),
                   !.pc = "write", !.cont = "loop"]
  /\ UNCHANGED <<world, fr, run, theme, guard>>

\* await writeProgress(runId, progressRelativePath, snapshot), and what
\* follows it up to the next await or return.
VideoWrite ==
  /\ drv.pc = "write"
  /\ LET d == [drv EXCEPT !.file = drv.snapshot]
     IN  drv' = CASE drv.cont = "loop" -> [d EXCEPT !.pc = "loop"]
                  [] drv.cont = "timeout" -> VideoRespond(d, "exhausted", 504, "")
                  [] drv.cont = "poll_failed" ->
                       VideoRespond(d, "poll_error", 502, "poll_failed")
                  [] drv.cont = "failed" ->
                       VideoRespond(d, "job_failed", 502,
                                    IF drv.currentJob.hasError THEN "job" ELSE "")
                  [] OTHER -> VideoRespond(d, "completed", 201, "")
  /\ UNCHANGED <<world, fr, run, theme, guard>>

\* The test of the loop with an off-by-one check of the attempts.
VideoLoopOffByOne ==
  /\ drv.pc = "loop"
  /\ drv' = IF drv.currentJob.status \notin {"completed", "failed"}
            THEN IF drv.attempts > MAX_POLL_ATTEMPTS
                 THEN [drv EXCEPT
                        !.snapshot = updateProgress(@, "failed", @.progress, "timeout"),
                        !.pc = "write", !.cont = "timeout"]
                 ELSE [drv EXCEPT !.pc = "delay"]
            ELSE IF drv.currentJob.status = "failed"
                 THEN [drv EXCEPT !.pc = "write", !.cont = "failed"]
                 ELSE [drv EXCEPT !.pc = "download"]
  /\ UNCHANGED <<world, fr, run, theme, guard>>

\* while (status is neither completed nor failed): the check of the attempts;
\* after the loop: the failed job, or the download.
VideoLoop ==
  /\ drv.pc = "loop"
  /\ drv' = IF drv.currentJob.status \notin {"completed", "failed"}
            THEN IF drv.attempts >= MAX_POLL_ATTEMPTS
                 THEN [drv EXCEPT
                        !.snapshot = updateProgress(@, "failed", @.progress, "timeout"),
                        !.pc = "write", !.cont = "timeout"]
                 ELSE [drv EXCEPT !.pc = "delay"]
            ELSE IF drv.currentJob.status = "failed"
                 THEN [drv EXCEPT !.pc = "write", !.cont = "failed"]
                 ELSE [drv EXCEPT !.pc = "download"]
  /\ UNCHANGED <<world, fr, run, theme, guard>>

\* await delay(POLL_INTERVAL_MS); attempts += 1
VideoDelay ==
  /\ drv.pc = "delay"
  /\ drv' = [drv EXCEPT !.attempts = @ + 1, !.pc = "retrieve"]
  /\ UNCHANGED <<world, fr, run, theme, guard>>

\* currentJob = await client.videos.retrieve(videoJob.id), its catch, and the
\* updateProgress after it.
VideoRetrieve ==
  /\ drv.pc = "retrieve"
  /\ \/ drv' = [drv EXCEPT
                 !.retrievals = @ + 1,
                 !.snapshot = updateProgress(@, "failed", @.progress, "poll_failed"),
                 !.pc = "write", !.cont = "poll_failed"]
     \/ \E job \in Jobs :
          drv' = [drv EXCEPT
                   !.retrievals = @ + 1,
                   !.currentJob = job,
                   !.snapshot = updateProgress(@, job.status,
                                  IF job.hasProgress THEN job.progress ELSE @.progress,
                                  IF job.hasError THEN "job" ELSE ""),
                   !.pc = "write", !.cont = "loop"]
  /\ UNCHANGED <<world, fr, run, theme, guard>>

\* downloadVideo(...): a throw is answered by the outer catch (500); otherwise
\* the snapshot is completed.
VideoDownload ==
  /\ drv.pc = "download"
  /\ \/ drv' = VideoRespond(drv, "completed", 500, "")
     \/ drv' = [drv EXCEPT
                 !.snapshot = [@ EXCEPT !.status = "completed", !.progress = 100],
                 !.pc = "write", !.cont = "completed"]
  /\ UNCHANGED <<world, fr, run, theme, guard>>

\* ======================================================== event stream
\* The agent run's events on the wire: createEmitter.send writes
\* `event: <name>\ndata: <json>\n\n` (part_009), the side panel reads the body
\* in chunks and threads the unparsed remainder through parseSseChunk
\* (part_005). Texts are sequences of characters. The record `drv` holds the
\* wire, the client's buffer and what it has emitted.
MaxSseEvents == 2

NL == "\n"
Quote == "\""
Backslash == "\\"

\* The data of an event: the number 1, or a string.
SseData ==
  {[isString |-> FALSE, chars |-> <<"1">>],
   [isString |-> TRUE, chars |-> <<" ", NL>>]}
SseNames == {<<"d", "o", "n", "e">>, <<"m", "e", "s", "s", "a", "g", "e">>}
SseEvents == [event : SseNames, data : SseData]

RECURSIVE Escape(_)
Escape(chars) ==
  IF chars = <<>> THEN <<>>
  ELSE (IF Head(chars) = NL THEN <<Backslash, "n">> ELSE <<Head(chars)>>)
         \o Escape(Tail(chars))

\* JSON.stringify(data)
stringify(data) ==
  IF data.isString THEN <<Quote>> \o Escape(data.chars) \o <<Quote>> ELSE data.chars

\* The characters of a JSON string literal's inside, or the failure.
RECURSIVE Unescape(_)
Unescape(text) ==
  IF text = <<>> THEN [ok |-> TRUE, chars |-> <<>>]
  ELSE IF Head(text) \in {NL, Quote} THEN [ok |-> FALSE, chars |-> <<>>]
  ELSE IF Head(text) = Backslash
       THEN IF Len(text) >= 2 /\ text[2] = "n"
            THEN LET r == Unescape(Tail(Tail(text)))
                 IN  [ok |-> r.ok, chars |-> <<NL>> \o r.chars]
            ELSE [ok |-> FALSE, chars |-> <<>>]
  ELSE LET r == Unescape(Tail(text))
       IN  [ok |-> r.ok, chars |-> <<Head(text)>> \o r.chars]

\* JSON.parse(payload): the value, or the throw (ok false).
JSONparse(payload) ==
  IF payload = <<"1">>
  THEN [ok |-> TRUE, data |-> [isString |-> FALSE, chars |-> <<"1">>]]
  ELSE IF Len(payload) >= 2 /\ Head(payload) = Quote /\ payload[Len(payload)] = Quote
       THEN LET r == Unescape(SubSeq(payload, 2, Len(payload) - 1))
            IN  [ok |-> r.ok, data |-> [isString |-> TRUE, chars |-> r.chars]]
       ELSE [ok |-> FALSE, data |-> [isString |-> FALSE, chars |-> <<>>]]

\* encoder.encode(`event: ${event}\ndata: ${JSON.stringify(data)}\n\n`)
SseEncode(e) ==
  <<"e", "v", "e", "n", "t", ":", " ">> \o e.event \o <<NL>>
    \o <<"d", "a", "t", "a", ":", " ">> \o stringify(e.data) \o <<NL, NL>>

\* remaining.indexOf('\n\n'), 1-based; 0 when absent
RECURSIVE IndexOfBoundary(_, _)
IndexOfBoundary(text, from) ==
  IF from + 1 > Len(text) THEN 0
  ELSE IF text[from] = NL /\ text[from + 1] = NL THEN from
  ELSE IndexOfBoundary(text, from + 1)

\* chunk.split('\n')
RECURSIVE SplitLines(_)
SplitLines(text) ==
  LET nl == CHOOSE i \in 1..(Len(text) + 1) :
              /\ i = Len(text) + 1 \/ text[i] = NL
              /\ \A j \in 1..(i - 1) : text[j] # NL
  IN  IF nl = Len(text) + 1 THEN <<text>>
      ELSE <<SubSeq(text, 1, nl - 1)>> \o SplitLines(SubSeq(text, nl + 1, Len(text)))

\* The loop over the lines of one chunk: the event name and the data lines.
RECURSIVE ReadLines(_, _, _)
ReadLines(lines, eventName, payload) ==
  IF lines = <<>> THEN [eventName |-> eventName, payload |-> payload]
  ELSE LET line == Head(lines)
       IN  IF StartsWith(line, <<"e", "v", "e", "n", "t", ":">>)
           THEN ReadLines(Tail(lines), Trim(SubSeq(line, 7, Len(line))), payload)
           ELSE IF StartsWith(line, <<"d", "a", "t", "a", ":">>)
           THEN ReadLines(Tail(lines), eventName,
                          Append(payload, Trim(SubSeq(line, 6, Len(line)))))
           ELSE ReadLines(Tail(lines), eventName, payload)

RECURSIVE JoinLines(_)
JoinLines(dataLines) ==
  IF dataLines = <<>> THEN <<>> ELSE Head(dataLines) \o JoinLines(Tail(dataLines))

\* What one non-empty chunk emits: one (event, data) pair, or nothing.
EmitChunk(chunk) ==
  LET r == ReadLines(SplitLines(chunk), <<"m", "e", "s", "s", "a", "g", "e">>, <<>>)
      parsed == JSONparse(JoinLines(r.payload))
  IN  IF r.payload # <<>> /\ parsed.ok
      THEN <<[event |-> r.eventName, data |-> parsed.data]>>
      ELSE <<>>

\* The while loop of parseSseChunk from a remainder on.
RECURSIVE ParseLoop(_, _)
ParseLoop(remaining, emitted) ==
  LET boundary == IndexOfBoundary(remaining, 1)
  IN  IF boundary = 0 THEN [remaining |-> remaining, emitted |-> emitted]
      ELSE LET chunk == Trim(SubSeq(remaining, 1, boundary - 1))
           IN  ParseLoop(SubSeq(remaining, boundary + 2, Len(remaining)),
                         IF chunk # <<>> THEN emitted \o EmitChunk(chunk) ELSE emitted)

\* parseSseChunk returning the remainder trimmed.
parseSseChunkTrimmed(buffer) ==
  LET r == ParseLoop(buffer, <<>>)
  IN  [remaining |-> Trim(r.remaining), emitted |-> r.emitted]

\* parseSseChunk(buffer, emit): the remainder it returns and what it emitted.
parseSseChunk(buffer) == ParseLoop(buffer, <<>>)

\* (`reads` counts the chunks read, up to two.)
IdleSse ==
  [pc |-> "reading", sent |-> <<>>, stream |-> <<>>, unread |-> <<>>,
   closed |-> FALSE, buffer |-> <<>>, emitted |-> <<>>, reads |-> 0]

\* emitter.send(event, data) on the server
SseSend ==
  /\ ~drv.closed /\ Len(drv.sent) < MaxSseEvents
  /\ \E e \in SseEvents :
       drv' = [drv EXCEPT !.sent = Append(@, e),
                          !.stream = @ \o SseEncode(e),
                          !.unread = @ \o SseEncode(e)]
  /\ UNCHANGED <<world, fr, run, theme, guard>>

\* controller.close() on the server
SseClose ==
  /\ ~drv.closed
  /\ drv' = [drv EXCEPT !.closed = TRUE]
  /\ UNCHANGED <<world, fr, run, theme, guard>>

\* reader.read() resolves with a chunk of any size; buffer += decode(value);
\* buffer = parseSseChunk(buffer, handleEvent)
SseRead ==
  /\ drv.pc = "reading"
  /\ \E n \in 1..Len(drv.unread) :
       LET r == parseSseChunk(drv.buffer \o SubSeq(drv.unread, 1, n))
       IN  drv' = [drv EXCEPT !.unread = SubSeq(@, n + 1, Len(@)),
                              !.buffer = r.remaining,
                              !.emitted = @ \o r.emitted,
                              !.reads = IF @ < 2 THEN @ + 1 ELSE @]
  /\ UNCHANGED <<world, fr, run, theme, guard>>

\* reader.read() resolves with done; the last parse of a non-empty buffer
SseDone ==
  /\ drv.pc = "reading" /\ drv.closed /\ drv.unread = <<>>
  /\ drv' = [drv EXCEPT
              !.pc = "finished",
              !.emitted = IF drv.buffer # <<>>
                          THEN @ \o parseSseChunk(drv.buffer).emitted ELSE @]
  /\ UNCHANGED <<world, fr, run, theme, guard>>

\* ------------------------------------------------------- specifications
IdleRest == run = [pc |-> "none"] /\ theme = [pc |-> "none"] /\ guard = [pc |-> "none"]

\* SpecPath: the path guard and the writers of files.
IdleWorld ==
  /\ isRepo = TRUE /\ tree = "clean" /\ stash = <<>> /\ stackFile = <<>>
  /\ now = 1 /\ faults = 0
  /\ fr = [p \in Procs |-> IdleFrame] /\ drv = IdleDriver
InitPath ==
  /\ IdleWorld
  /\ guard = IdleGuard
  /\ run = [pc |-> "none"] /\ theme = [pc |-> "none"]
NextPath ==
  \/ GuardPush \/ GuardResolve \/ GuardReset
  \/ ThemeFileWrite \/ UploadWrite \/ AgentWrite
SpecPath == InitPath /\ [][NextPath]_vars

\* SpecTheme: one theme update, through either route.
EarlierSnapshot == Label(1, "agent-run-post")
InitTheme ==
  /\ isRepo \in BOOLEAN /\ tree = "clean" /\ now = 1 /\ faults = 0
  /\ \E snapshots \in BOOLEAN :
       /\ stash = IF snapshots /\ isRepo THEN <<Entry(EarlierSnapshot, TRUE)>> ELSE <<>>
       /\ stackFile = IF snapshots /\ isRepo THEN <<EarlierSnapshot>> ELSE <<>>
  /\ fr = [p \in Procs |-> IdleFrame] /\ drv = IdleDriver
  /\ \E content \in Contents, k \in BOOLEAN :
       theme = [IdleTheme EXCEPT !.file = content, !.apiKey = k]
  /\ run = [pc |-> "none"] /\ guard = [pc |-> "none"]
NextTheme ==
  \/ ThemeRequest \/ ThemeRead \/ ThemeWrite \/ ThemeStreamed \/ ThemeAgentEdit
  \/ ThemeEvent \/ ThemeEnd \/ ThemePost \/ ThemeAbort
  \/ CreateStep(1) \/ SummaryStep(1)
  \/ ExternalStashDrop
SpecTheme == InitTheme /\ [][NextTheme]_vars

\* An earlier run left a snapshot behind: its label is in the stack and its
\* entry in the stash.
HealEarlier == Label(0, "agent-run-post")
\* Spec: one agent run.
Init ==
  /\ isRepo \in BOOLEAN /\ now = 1 /\ faults = 0
  /\ tree \in {"clean", "untracked", "tracked"}
  /\ \E earlier \in BOOLEAN :
       /\ stash = IF earlier /\ isRepo THEN <<Entry(HealEarlier, TRUE)>> ELSE <<>>
       /\ stackFile = IF earlier /\ isRepo THEN <<HealEarlier>> ELSE <<>>
  /\ fr = [p \in Procs |-> IdleFrame] /\ drv = IdleDriver
  /\ \E k \in BOOLEAN : run = [IdleRun EXCEPT !.apiKey = k]
  /\ theme = [pc |-> "none"] /\ guard = [pc |-> "none"]
Next ==
  \/ RunRequest \/ RunOpen \/ RunStreamed \/ RunEvent \/ RunEnd \/ RunPost
  \/ RunAbort \/ RunCancel \/ AgentTouch
  \/ CreateStep(1) \/ DropStep(1) \/ SummaryStep(1)
  \/ ExternalStashDrop
Spec == Init /\ [][Next]_vars

InitLifo == InitWorld /\ IdleRest
NextLifo ==
  \/ LifoCreate \/ LifoCreated \/ LifoTouch \/ LifoUndo \/ LifoUndone
  \/ CreateStep(1) \/ ApplyStep(1) \/ FsList(1) \/ FsWrite(1)
  \/ ExternalStashDrop
SpecLifo == InitLifo /\ [][NextLifo]_vars

InitHeal ==
  /\ isRepo \in BOOLEAN /\ now = 1 /\ faults = 0
  /\ tree \in {"clean", "untracked", "tracked"}
  /\ \E earlier \in BOOLEAN, tracked \in BOOLEAN :
       /\ stash = IF earlier /\ isRepo THEN <<Entry(HealEarlier, tracked)>> ELSE <<>>
       /\ stackFile = IF earlier /\ isRepo THEN <<HealEarlier>> ELSE <<>>
  /\ fr = [p \in Procs |-> IdleFrame] /\ drv = IdleHeal
  /\ IdleRest
NextHeal ==
  \/ HealCreate \/ HealSummary \/ HealApply \/ HealDrop \/ HealDone
  \/ HealTouch \/ HealStashDrop
  \/ CreateStep(1) \/ DropStep(1) \/ SummaryStep(1) \/ ApplyStep(1)
SpecHeal == InitHeal /\ [][NextHeal]_vars

InitRace ==
  /\ isRepo \in BOOLEAN /\ now = 1 /\ faults = 0
  /\ tree \in {"clean", "untracked", "tracked"}
  /\ stash = <<>> /\ stackFile = <<>>
  /\ fr = [p \in Procs |-> IdleFrame] /\ drv = IdleRace
  /\ IdleRest
NextRace == \E p \in Procs : RaceCreate(p) \/ RaceDone(p) \/ CreateStep(p)
SpecRace == InitRace /\ [][NextRace]_vars

InitStack == InitWorld /\ IdleRest
NextStack ==
  \/ \E p \in Procs :
       \/ StackCreate(p) \/ StackDrop(p) \/ StackApply(p) \/ StackSummary(p)
       \/ StackDone(p)
       \/ CreateStep(p) \/ DropStep(p) \/ SummaryStep(p) \/ ApplyStep(p)
  \/ StackTouch
SpecStack == InitStack /\ [][NextStack]_vars

\* The video request: every step of the handler is an awaited promise that
\* settles, so the handler keeps taking steps until it has answered.
InitVideo ==
  /\ isRepo = TRUE /\ tree = "clean" /\ stash = <<>> /\ stackFile = <<>>
  /\ now = 1 /\ faults = 0
  /\ fr = [p \in Procs |-> IdleFrame] /\ drv = IdleVideo
  /\ IdleRest
NextVideo ==
  \/ VideoCreate \/ VideoWrite \/ VideoLoop \/ VideoDelay \/ VideoRetrieve
  \/ VideoDownload
SpecVideo == InitVideo /\ [][NextVideo]_vars /\ WF_vars(NextVideo)

\* The event stream between the agent route and the side panel.
InitSse ==
  /\ isRepo = TRUE /\ tree = "clean" /\ stash = <<>> /\ stackFile = <<>>
  /\ now = 1 /\ faults = 0
  /\ fr = [p \in Procs |-> IdleFrame] /\ drv = IdleSse
  /\ IdleRest
NextSse == SseSend \/ SseClose \/ SseRead \/ SseDone
SpecSse == InitSse /\ [][NextSse]_vars

\* ---------------------------------------------------------------- claims

DistinctLabels(s) == \A i, j \in 1..Len(s) : i # j => s[i] # s[j]

\* Positions of the `done` chunks of the agent run's stream.
DoneAt == {i \in 1..Len(run.queue) : run.queue[i].event = "done"}
\* Positions of the chunks forwarded from source events.
ForwardedAt == {i \in 1..Len(run.queue) : run.queue[i].src > 0}
\* start() of the agent run's stream has returned or thrown.
RunEnded == run.pc = "done" /\ run.response = "stream"
SawFileChange == \E i \in 1..Len(run.seen) : run.seen[i].item = "file_change"

\* C5: snapshot stack is strict LIFO. After N createSnapshot calls that each
\* returned a label (created = L1..LN, each followed by file changes), with no
\* stash entry dropped by hand and no git subprocess failing on its own, the
\* k-th consecutive applyLatestSnapshot call has returned applied: true with
\* remaining = N-k and has left exactly L1..L(N-k) in the persisted stack and
\* in the stash.
C5_LifoOrder ==
  LET N == Len(drv.created)
      k == Len(drv.undone)
  IN  (/\ fr[1].pc = "idle" /\ faults = 0 /\ drv.ext = 0
       /\ DistinctLabels(drv.created) /\ k >= 1 /\ k <= N) =>
        /\ drv.undone[k] = Applied(N - k)
        /\ stackFile = SubSeq(drv.created, 1, N - k)
        /\ StashLabels = Reverse(SubSeq(drv.created, 1, N - k))

\* C6: the persisted snapshot stack never holds a label twice.
C6_NoDuplicateLabel == DistinctLabels(stackFile)

\* C1: in every agent run, whatever the source events, errors or aborts, the
\* stream carries exactly one `done` chunk and nothing is enqueued after it.
C1_ExactlyOneDone ==
  /\ \A i \in DoneAt : i = Len(run.queue)
  /\ RunEnded => Cardinality(DoneAt) = 1

\* C2: an agent run whose source events never held a file_change item leaves,
\* once it has ended (normally, by error or by abort), no label in the
\* persisted stack that was not there before it started.
C2_NoGrowthWithoutChange ==
  (run.pc = "done" /\ ~SawFileChange) =>
    \A i \in 1..Len(stackFile) : \E j \in 1..Len(run.stack0) : stackFile[i] = run.stack0[j]

\* C7: the message chunks forwarded from the source events E1..En are in the
\* order of their source events, none twice, each the normalized form of its
\* event, and once the run has ended exactly one `done` chunk follows them all.
C7_OrderedThenDone ==
  /\ \A i, j \in ForwardedAt : i < j => run.queue[i].src < run.queue[j].src
  /\ \A i \in ForwardedAt :
       /\ run.queue[i].src <= Len(run.seen)
       /\ [type |-> run.queue[i].type, phase |-> run.queue[i].phase]
            = EventMessage(run.seen[run.queue[i].src])
  /\ RunEnded => /\ Cardinality(DoneAt) = 1
                 /\ \A i \in DoneAt : i = Len(run.queue)

\* C8: when a leaf operation has failed after the stream was opened (and the
\* client neither aborted nor cancelled), the stream is not closed without a
\* `done` chunk enqueued first.
C8_NoCloseWithoutDone ==
  (run.ctrl = "closed" /\ run.failed /\ ~run.aborted) => DoneAt # {}

\* C9: when the client has aborted the agent run, a `done` chunk is enqueued
\* before the stream closes.
C9_AbortStillDone ==
  (run.ctrl = "closed" /\ run.aborted) => DoneAt # {}

\* The components of the normalized join of the workspace root and the segments.
Components(segments) ==
  NormalizeParts(SplitPath(JoinSegments(<<WORKSPACE_ROOT>> \o segments)), <<>>)
\* The components of the allowed roots: app, styles, public/outputs.
RootComponents ==
  {<<<<"w">>, app>>, <<<<"w">>, styles>>, <<<<"w">>, public, outputs>>}
Beneath(parts) ==
  \E root \in RootComponents :
    Len(parts) >= Len(root) /\ SubSeq(parts, 1, Len(root)) = root
Escapes(parts) == Len(parts) = 0 \/ parts[1] # <<"w">>

\* C3: resolveWorkspacePath(...segments) returns the normalized join of the
\* workspace root and the segments if and only if that join is an allowed root
\* (app, styles, public/outputs) or lies beneath one, component by component;
\* it throws otherwise: for segments that leave the workspace through "..",
\* and for a sibling that shares only a prefix with a root (appsecret).
C3_PathContainment ==
  guard.pc = "resolved" =>
    LET parts == Components(guard.segments)
    IN  /\ guard.result.ok <=> Beneath(parts)
        /\ guard.result.ok => PathResolve(guard.result.path) = JoinParts(parts)
        /\ Escapes(parts) => ~guard.result.ok
        /\ (Len(parts) >= 2 /\ parts[2] = appsecret) => ~guard.result.ok

C3_Witness ==
  /\ guard.pc = "resolved"
  /\ guard.segments = <<app, DotDot, appsecret>>
  /\ ~guard.result.ok

\* C4: every write to disk made on behalf of a run (theme file rewrite, agent
\* thread edit, attachment upload) has its target under app/, styles/ or
\* public/outputs/, having passed the path guard.
C4_WritesUnderAllowedRoots ==
  guard.pc = "wrote" =>
    /\ Beneath(NormalizeParts(SplitPath(guard.result.path), <<>>))
    /\ guard.guarded

\* Labels of s, in order, that are also in t: s is t with labels removed.
RECURSIVE IsSubSeq(_, _)
IsSubSeq(s, t) ==
  IF s = <<>> THEN TRUE
  ELSE IF t = <<>> THEN FALSE
  ELSE IF Head(s) = Head(t) THEN IsSubSeq(Tail(s), Tail(t))
  ELSE IsSubSeq(s, Tail(t))

C11_NoopWithoutSubprocess ==
  /\ [](theme.noop => theme.threads = 0)
  /\ []((theme.noop /\ theme.pc = "done") =>
          IF theme.route = "direct" THEN theme.response = "200"
          ELSE /\ theme.response = "stream"
               /\ theme.queue # <<>>
               /\ LET last == theme.queue[Len(theme.queue)]
                  IN  last.event = "done" /\ last.ok /\ last.reason = "no_changes")
  /\ [][theme.noop => ~FsList(1)]_vars

\* The labels of a stack that have a stash entry of their own, in order.
Surviving(stack, entries) ==
  SelectSeq(stack, LAMBDA l : \E i \in 1..Len(entries) :
                                Label(entries[i].ts, entries[i].purpose) = l)
DistinctTimes(stack) ==
  \A i, j \in 1..Len(stack) : i # j => stack[i].ts # stack[j].ts
\* A call of SpecHeal has returned or thrown; it started in a repository, from
\* a stack of labels taken at different times some of which had lost their
\* stash entry, and no git subprocess failed on its own during the call.
HealedCall(op) ==
  /\ isRepo /\ fr[1].pc = "idle" /\ drv.op = op /\ drv.res.kind # "none"
  /\ faults = drv.faults0 /\ DistinctTimes(drv.stack0)
  /\ Surviving(drv.stack0, drv.stash0) # drv.stack0

\* C12: self-healing. When stash entries of some stack labels were removed by
\* hand, getSnapshotSummary returns exactly the labels that still have a stash
\* entry, in their order, and persists that list; applyLatestSnapshot restores
\* the topmost label that still has a stash entry (applied: true, the label
\* gone from stack and stash) instead of failing, and reports that no snapshot
\* is available when none has an entry.
C12_SelfHealing ==
  LET alive == Surviving(drv.stack0, drv.stash0)
      n == Len(alive)
  IN  /\ HealedCall("summary") =>
           /\ drv.res.kind = "summary"
           /\ drv.res.snapshots = alive
           /\ drv.res.hasSnapshots = (n > 0)
           /\ stackFile = alive
      /\ HealedCall("apply") =>
           IF n = 0
           THEN drv.res = NotApplied("No snapshots available") /\ stackFile = <<>>
           ELSE /\ drv.res = Applied(n - 1)
                /\ stackFile = SubSeq(alive, 1, n - 1)
                /\ \A i \in 1..Len(stash) :
                     Label(stash[i].ts, stash[i].purpose) # alive[n]

\* The `done` chunks of the agent run's stream.
DoneChunks == {run.queue[i] : i \in DoneAt}

\* C13 (as claimed): an agent run whose createSnapshot('agent-run-pre')
\* returned null (the workspace was clean) and whose events held no file
\* change carries, in the `done` chunk it ends with, hasSnapshots false.
C13_CleanRunReportsNoSnapshots ==
  (RunEnded /\ run.pre = NullLabel /\ ~SawFileChange) =>
    \A c \in DoneChunks : ~c.hasSnapshots

\* C13 (amended): the same for a run that found no label in the persisted
\* stack when it started: hasSnapshots reports the whole stack, the labels of
\* earlier runs included.
C13_FreshRunReportsNoSnapshots ==
  (RunEnded /\ run.pre = NullLabel /\ ~SawFileChange /\ run.stack0 = <<>>) =>
    \A c \in DoneChunks : ~c.hasSnapshots

C13_Witness ==
  /\ RunEnded /\ run.pre = NullLabel /\ ~SawFileChange /\ run.stack0 = <<>>
  /\ isRepo /\ faults = 0 /\ tree # "clean"
  /\ \E c \in DoneChunks : c.ok /\ ~c.hasSnapshots

\* C14: POST /undo answers 200 with {ok: true} when applyLatestSnapshot
\* applied a snapshot, 409 with top-level {ok: false, reason} when it returned
\* applied: false, and 500 with top-level {ok: false, error} when it threw.
C14_UndoResponses ==
  (fr[1].pc = "idle" /\ drv.op = "apply" /\ drv.response.status # 0) =>
    LET r == drv.response
    IN  /\ (~drv.thrown /\ drv.res.applied) =>
             r.status = 200 /\ r.body.ok = "true"
        /\ (~drv.thrown /\ ~drv.res.applied) =>
             r.status = 409 /\ r.body.ok = "false" /\ r.body.reason # Absent
        /\ drv.thrown =>
             r.status = 500 /\ r.body.ok = "false" /\ r.body.error # Absent

\* A call of the driver has ended after one of its git subprocesses failed:
\* outside a repository, or by exiting non-zero inside one.
GitFailedIn(op) ==
  /\ fr[1].pc = "idle" /\ drv.op = op /\ drv.res.kind # "none"
  /\ (~isRepo \/ faults > drv.faults0)

\* C15: when a git invocation of the call has failed (the directory is not a
\* repository, or git status / stash push / stash list exits non-zero), no
\* operation has thrown; outside a repository createSnapshot has returned
\* null, applyLatestSnapshot a result that is not applied, dropSnapshot one
\* that is not dropped, and getSnapshotSummary one without snapshots.
C15_GitFailureIsReported ==
  /\ \A op \in {"create", "apply", "drop", "summary"} :
       GitFailedIn(op) => ~drv.thrown
  /\ (GitFailedIn("create") /\ ~isRepo) => drv.res.label = NullLabel
  /\ (GitFailedIn("apply") /\ ~isRepo) => ~drv.res.applied
  /\ (GitFailedIn("drop") /\ ~isRepo) => ~drv.res.dropped
  /\ (GitFailedIn("summary") /\ ~isRepo) => ~drv.res.hasSnapshots

\* The body is one validation has to reject: no prompt, or an image path that
\* resolves outside the allowed roots.
InvalidBody(body) ==
  \/ ~body.isString \/ Trim(body.prompt) = <<>>
  \/ \E i \in 1..Len(body.images) : ~isPathAllowed(resolveImagePath(body.images[i]))

\* C16: an agent request with an invalid payload (empty or non-string prompt,
\* out-of-scope path) is answered 400, and no external call (createSnapshot,
\* agent thread start) is made for it.
C16_InvalidPayloadRejectedFirst ==
  (run.pc # "idle" /\ InvalidBody(run.body)) =>
    /\ run.external = {}
    /\ run.pc = "done" /\ run.response = "400"

\* What dropSnapshot returns once it has found and dropped the stash entry.
FoundAndDropped == [kind |-> "drop", dropped |-> TRUE, reason |-> ""]

\* C17: dropSnapshot(label), the label being in the persisted stack, has
\* removed the last occurrence of the label from the stack; when no stash
\* entry matched the label, what it returned differs from what it returns
\* when the stash entry was found and dropped.
C17_DropReportsMissingEntry ==
  (/\ fr[1].pc = "idle" /\ drv.op = "drop" /\ drv.res.kind = "drop"
   /\ LastIndexOf(drv.stack0, drv.label) # 0) =>
    /\ stackFile = RemoveAt(drv.stack0, LastIndexOf(drv.stack0, drv.label))
    /\ FindEntry(drv.stash0, drv.label) = 0 => drv.res # FoundAndDropped

\* createSnapshot has returned and has kept what it must keep.
CreateKept ==
  (drv.op = "create" /\ drv.res.kind = "label") =>
    /\ drv.res.label # NullLabel => tree = drv.tree0
    /\ (~isRepo \/ drv.tree0 = "clean") => drv.res.label = NullLabel
    /\ drv.res.label = NullLabel =>
         tree = drv.tree0 /\ stash = drv.stash0 /\ stackFile = drv.stack0

\* C18: createSnapshot preserves contents: when it returns a label the
\* working tree is as it was before the call; on a clean workspace or outside
\* a repository it returns null and leaves working tree, stash and persisted
\* stack unchanged.
C18_CreatePreservesContents == [][HealDone => CreateKept']_vars

\* C19: in every agent run that emits `done`, if no file-change event was seen
\* and createSnapshot('agent-run-pre') returned a label, a dropSnapshot call
\* for that label has returned before the `done` chunk is enqueued, on the
\* success path and on the error path.
C19_DropBeforeDone ==
  [][(/\ DoneAt = {} /\ DoneAt' # {}
      /\ ~run'.hasFileChanges /\ run'.pre # NullLabel) => run.dropReturned]_vars

C19_Witness ==
  /\ RunEnded /\ run.failed /\ ~run.hasFileChanges /\ run.pre # NullLabel
  /\ run.dropReturned
  /\ \E c \in DoneChunks : ~c.ok
  /\ \A i \in 1..Len(stackFile) : stackFile[i] # run.pre

\* Positions of the labels of the persisted stack the run did not start with.
AddedAt == {i \in 1..Len(stackFile) : stackFile[i] \notin Range(run.stack0)}

\* C20: at the end of an agent run createSnapshot('agent-run-post') returns a
\* label only when hasFileChanges is true and the pre-run createSnapshot
\* returned null; a single run adds at most one label to the persisted stack.
C20_AtMostOneLabelPerRun ==
  /\ run.post # NullLabel => (run.hasFileChanges /\ run.pre = NullLabel)
  /\ Cardinality(AddedAt) <= 1

\* C21: once the client's abort signal has fired, no further chunk is
\* enqueued to the response stream, a closed controller stays closed (it is
\* closed at most once), and no further source event is consumed: the loop is
\* left at the next event the source yields.
C21_AbortStopsForwarding ==
  /\ [][run.aborted => (run'.queue = run.queue /\ run'.seen = run.seen)]_vars
  /\ [][run.ctrl = "closed" => run'.ctrl = "closed"]_vars
  /\ [][(run.aborted /\ RunEvent) => run'.pc # "loop"]_vars

\* An item.started / item.updated / item.completed event whose item is a
\* file_change has been consumed by the loop.
ConsumedFileChange ==
  \E i \in 1..Len(run.seen) :
    run.seen[i].type \in ItemEventTypes /\ run.seen[i].item = "file_change"

\* C22: hasFileChanges is false when the run starts, is true exactly when an
\* item.started / item.updated / item.completed event with a file_change item
\* has been consumed, never returns to false, and changes only in a turn of
\* the loop.
C22_FlagFollowsFileChange ==
  /\ [](run.pc \in {"idle", "pre", "run_streamed"} => ~run.hasFileChanges)
  /\ [](run.hasFileChanges <=> ConsumedFileChange)
  /\ [][run.hasFileChanges => run'.hasFileChanges]_vars
  /\ [][run'.hasFileChanges # run.hasFileChanges => RunEvent]_vars

C22_Witness ==
  /\ run.hasFileChanges /\ Len(run.seen) = 2
  /\ run.seen[1] = Ev("item.updated", "command_execution")
  /\ run.seen[2] = Ev("item.started", "file_change")
  /\ run.pc = "done"

\* Both createSnapshot calls of SpecRace have returned a label.
BothReturned ==
  /\ drv.finished = Procs
  /\ \A p \in Procs : drv.returned[p] # NullLabel

\* C23: createSnapshot is an unsynchronized read-modify-write of the
\* persisted stack and of the stash. Two calls that have both returned a
\* label leave the stack as one of: both labels in either order, or one label
\* alone; both labels in the order of the calls when one call started after
\* the other had returned. The stash then holds only entries of the two
\* labels, and at least one.
C23_UnsynchronizedCreate ==
  BothReturned =>
    LET a == drv.returned[1]
        b == drv.returned[2]
    IN  /\ stackFile \in {<<a, b>>, <<b, a>>, <<a>>, <<b>>}
        /\ 2 \in drv.after => stackFile = <<a, b>>
        /\ 1 \in drv.after => stackFile = <<b, a>>
        /\ stash # <<>>
        /\ \A i \in 1..Len(stash) : Includes(stash[i], a) \/ Includes(stash[i], b)

\* An interleaving of two concurrent calls: the stack holds the label of call
\* 2 alone, and the stash holds the entry of call 1 alone, so that it is the
\* entry stash@{0} named when call 2 ran `git stash apply`.
C23_Witness ==
  /\ BothReturned /\ drv.after = {} /\ faults = 0
  /\ drv.returned[1] # drv.returned[2]
  /\ stackFile = <<drv.returned[2]>>
  /\ Len(stash) = 1 /\ Includes(stash[1], drv.returned[1])
  /\ ~Includes(stash[1], drv.returned[2])

\* The stash holds an entry that the label's lookup matches.
HasEntry(entries, label) ==
  \E i \in 1..Len(entries) : Includes(entries[i], label)

\* How many times the label stands in the persisted stack, and how many stash
\* entries its lookup matches.
InStack(stack, label) == Cardinality({i \in 1..Len(stack) : stack[i] = label})

InStash(entries, label) ==
  Cardinality({i \in 1..Len(entries) : Includes(entries[i], label)})

\* C24: when `git apply` of the next snapshot's patch fails in
\* applyLatestSnapshot, the call throws and nothing is compensated: the target
\* label stays removed from the persisted stack and from the stash (fewer
\* occurrences in the stack and one stash entry fewer than when the call
\* began), the next label stays on top of the stack with its stash entry; the
\* undo endpoint answers 500.
C24_FailedRematerialization ==
  /\ [][(fr[1].pc = "al_patch" /\ fr'[1].pc = "throw") =>
          LET target == fr[1].label
              rest == fr[1].stack
          IN  /\ stackFile' = rest /\ stash' = stash
              /\ InStack(stackFile', target) < InStack(drv.stack0, target)
              /\ InStash(stash', target) = InStash(drv.stash0, target) - 1
              /\ rest # <<>> /\ HasEntry(stash', rest[Len(rest)])]_vars
  /\ []((fr[1].pc = "idle" /\ drv.op = "apply" /\ drv.thrown) =>
          drv.response.status = 500)

C24_Witness ==
  /\ fr[1].pc = "idle" /\ drv.op = "apply" /\ drv.thrown
  /\ isRepo /\ faults = drv.faults0
  /\ drv.response.status = 500
  /\ Len(drv.stack0) = 2 /\ stackFile = <<drv.stack0[1]>>
  /\ Len(stash) = 1 /\ HasEntry(stash, drv.stack0[1])

\* C25: every local image path handed to thread.runStreamed has passed the
\* workspace path guard: the input of the agent run holds no path outside the
\* allowed directories.
C25_ImagePathsGuarded ==
  \A i \in 1..Len(run.input) : isPathAllowed(run.input[i])

\* The persisted stack and the stash agree: each label of the stack has a stash
\* entry and each snapshot entry of the stash has its label in the stack.
Agree(stack, entries) ==
  /\ \A i \in 1..Len(stack) :
       \E j \in 1..Len(entries) :
         Label(entries[j].ts, entries[j].purpose) = stack[i]
  /\ \A j \in 1..Len(entries) :
       \E i \in 1..Len(stack) :
         stack[i] = Label(entries[j].ts, entries[j].purpose)

\* C26: a snapshot operation that starts from a stack and a stash that agree
\* and runs alone leaves them in agreement when it returns, a failed
\* `git stash drop` inside dropSnapshot included.
C26_StackAndStashAgree ==
  [][(HealDone /\ fr[1].pc = "ret" /\ Agree(drv.stack0, drv.stash0)) =>
       Agree(stackFile', stash')]_vars

\* C27: when `git stash drop` fails in applyLatestSnapshot, the popped label is
\* pushed back and persisted as the top of the stack, its stash entry is still
\* there (the stash is as it was when the call began), no file was checked out
\* (the working tree is as it was), and the call throws.
C27_FailedDropRestoresLabel ==
  /\ [][(fr[1].pc = "al_drop" /\ fr'[1].pc # "al_write") =>
          (fr'[1].pc = "al_restore" /\ stash' = stash /\ tree' = tree)]_vars
  /\ [][fr[1].pc = "al_restore" =>
          /\ fr'[1].pc = "throw"
          /\ stackFile' # <<>>
          /\ stackFile'[Len(stackFile')] = fr[1].label
          /\ HasEntry(stash', fr[1].label)
          /\ stash' = drv.stash0 /\ tree' = drv.tree0]_vars

C27_Witness ==
  /\ fr[1].pc = "throw" /\ fr[1].op = "apply" /\ fr[1].label # NullLabel
  /\ drv.stack0 = <<HealEarlier, fr[1].label>>
  /\ stackFile = drv.stack0
  /\ HasEntry(stash, fr[1].label)
  /\ stash = drv.stash0 /\ tree = drv.tree0

\* A failure event of the source (turn.failed or a top-level error) was
\* forwarded to the client.
FailureForwarded ==
  \E i \in 1..Len(run.queue) :
    run.queue[i].event = "message" /\ run.queue[i].type \in {"turn.failed", "error"}

\* C28: a `done` of a run in which a turn.failed or error event was forwarded
\* has ok false; ok true is reported only when no failure event was forwarded.
C28_DoneReflectsFailure ==
  \A i \in DoneAt : run.queue[i].ok => ~FailureForwarded

C30_ChunkingIndependent ==
  LET whole == parseSseChunk(drv.stream)
  IN  /\ drv.emitted \o parseSseChunk(drv.buffer \o drv.unread).emitted = whole.emitted
      /\ whole.emitted = drv.sent /\ whole.remaining = <<>>
      /\ drv.pc = "finished" => drv.emitted = whole.emitted

C30_Witness ==
  /\ drv.pc = "finished" /\ Len(drv.sent) = 2 /\ drv.reads = 2
  /\ drv.sent[1].data.chars = <<" ", NL>> /\ drv.sent[2].data.chars = <<"1">>
  /\ drv.emitted = drv.sent

====
